---- MODULE Spec2Model ----
(***************************************************************************)
(* Model of cst_lsp's "extract method" refactor                            *)
(* (cst_lsp/code_actions/extract_method.py, variable_collector.py).        *)
(*                                                                         *)
(* A parsed module is a table of nodes (id -> record) with 1-based line    *)
(* ranges.  FunctionExtractor is a libcst transformer: the traversal is a  *)
(* depth-first walk that calls visit_X on the way down and leave_X on the  *)
(* way up.  Every step of the model is one such handler call.              *)
(***************************************************************************)
EXTENDS Integers, Sequences, FiniteSets, TLC

VARIABLES
    tree,       \* the parsed module: node id -> node record
    config,     \* ExtractMethodConfig
    todo,       \* the traversal events still to come, next one first
    state,      \* ParserState
    collector,  \* VariableCollector (assignments, usages, types)
    result,     \* node id -> what leave_X returned for it (a sequence of nodes)
    split,      \* what the last leave_IndentedBlock computed (<<>> if none)
    output,     \* what leave_Module returned (<<>> while traversing)
    ranges,     \* two CodeRanges and the overlap tests' answers on them
    walk,       \* VariableCollector's own walk over one module
    server,     \* CstLspServer handling one code action request
    texts       \* string_diff_to_text_edits on two texts, and its edits applied

vars == <<tree, config, todo, state, collector, result, split, output,
          ranges, walk, server, texts>>

(***************************************************************************)
(* Bounds of the model.                                                    *)
(***************************************************************************)
\* span end points range over 1..MaxLine
MaxLine == 7
\* the enclosing function declares 0..MaxParams formal parameters
MaxParams == 2

(***************************************************************************)
(* Generic helpers.                                                        *)
(***************************************************************************)
Range(s) == {s[i] : i \in DOMAIN s}

Contains(s, x) == \E i \in DOMAIN s : s[i] = x

RECURSIVE FlattenSeq(_)
FlattenSeq(ss) == IF ss = <<>> THEN <<>> ELSE Head(ss) \o FlattenSeq(Tail(ss))

\* list.remove(x): drops the first occurrence of x
RemoveFirst(s, x) ==
    IF ~Contains(s, x) THEN s
    ELSE LET i == CHOOSE k \in DOMAIN s : s[k] = x /\ \A j \in 1..(k - 1) : s[j] # x
         IN  SubSeq(s, 1, i - 1) \o SubSeq(s, i + 1, Len(s))

\* (line, column) tuples compare lexicographically, as Python tuples do
PosLess(p, q) == p[1] < q[1] \/ (p[1] = q[1] /\ p[2] < q[2])

MinPos(S) == CHOOSE p \in S : \A q \in S : p = q \/ PosLess(p, q)

(***************************************************************************)
(* The tree.  A node is a record; None is 0 for node references and <<>>   *)
(* for optional records.                                                   *)
(***************************************************************************)
Node(kind, parent, children, first, last) ==
    [kind |-> kind, parent |-> parent, children |-> children,
     first |-> first, last |-> last,
     name |-> "", decorators |-> <<>>, params |-> <<>>, returns |-> "",
     leading |-> <<>>, facts |-> <<>>, value |-> ""]

\* one call of VariableCollector._track_node on a cst.Name
Fact(name, line, col, asg, ann) ==
    [name |-> name, line |-> line, col |-> col, asg |-> asg, ann |-> ann]

Asg(name, line, col) == Fact(name, line, col, TRUE, "")
Use(name, line, col) == Fact(name, line, col, FALSE, "")

(***************************************************************************)
(* Statement forms.  A simple statement is described by the calls of       *)
(* _track_node the collector makes on it, in visiting order, and by the    *)
(* (at most one) Return / Yield / Await node it holds.                     *)
(*   asg   x = 1          aug   x += y         use   y + x                 *)
(*   ann   y: str = x     ret   return x       yld   yield y               *)
(*   awt   x = await y    rcv   r.a = x        asr   r = y                 *)
(***************************************************************************)
FormFacts(f, l) ==
    CASE f = "asg" -> <<Asg("x", l, 0)>>
      [] f = "aug" -> <<Asg("x", l, 0), Use("x", l, 0), Use("y", l, 5)>>
      [] f = "use" -> <<Use("y", l, 0), Use("x", l, 4)>>
      [] f = "ann" -> <<Fact("y", l, 0, TRUE, "str"), Use("y", l, 0),
                        Use("str", l, 3), Use("x", l, 9)>>
      [] f = "ret" -> <<Use("x", l, 7)>>
      [] f = "yld" -> <<Use("y", l, 6)>>
      [] f = "awt" -> <<Asg("x", l, 0), Use("y", l, 10)>>
      [] f = "rcv" -> <<Use("r", l, 0), Use("x", l, 6)>>
      [] f = "asr" -> <<Asg("r", l, 0), Use("y", l, 4)>>

FormMarker(f) ==
    CASE f = "ret" -> "Return"
      [] f = "yld" -> "Yield"
      [] f = "awt" -> "Await"
      [] OTHER -> ""

\* a one-line statement of form f at line l, node id n, its marker node n + 10
StmtNodes(n, parent, f, l, lead) ==
    LET m == FormMarker(f)
        stmt == [Node("Stmt", parent, IF m = "" THEN <<>> ELSE <<n + 10>>, l, l)
                    EXCEPT !.facts = FormFacts(f, l), !.leading = lead]
    IN  IF m = "" THEN (n :> stmt)
        ELSE (n :> stmt) @@
             ((n + 10) :> [Node(m, n, <<>>, l, l)
                              EXCEPT !.value = IF f = "ret" THEN "x" ELSE ""])

ParamNames == <<"r", "x", "y", "z">>

\* the formal parameters of a def: name and annotation
MkParams(n, typed) ==
    [i \in 1..n |-> [name |-> ParamNames[i],
                     ann |-> IF typed /\ i > 1 THEN "int" ELSE ""]]

\* what the collector records on the header of a def at line l: the Name of
\* the function (a usage), then per Param an assignment (visit_Param) and a
\* usage (visit_Name on the same Name node), and the annotation's Name
RECURSIVE ParamFacts(_, _, _)
ParamFacts(ps, l, i) ==
    IF i > Len(ps) THEN <<>>
    ELSE <<Fact(ps[i].name, l, 4 * i + 2, TRUE, ps[i].ann),
           Use(ps[i].name, l, 4 * i + 2)>>
         \o (IF ps[i].ann = "" THEN <<>> ELSE <<Use(ps[i].ann, l, 4 * i + 4)>>)
         \o ParamFacts(ps, l, i + 1)

DefNode(parent, children, first, last, name, decos, ps, returns, lead) ==
    [Node("FunctionDef", parent, children, first, last)
        EXCEPT !.name = name, !.decorators = decos, !.params = ps,
               !.returns = returns, !.leading = lead,
               !.facts = <<Use(name, first, 4)>> \o ParamFacts(ps, first, 1)
                         \o (IF returns = "" THEN <<>>
                             ELSE <<Use(returns, first, 30)>>)]

Deco(isName, value) == [isName |-> isName, value |-> value]

DecoChoices ==
    { <<>>,
      <<Deco(TRUE, "staticmethod")>>,
      <<Deco(TRUE, "classmethod")>>,
      <<Deco(TRUE, "classmethod"), Deco(TRUE, "staticmethod")>>,
      <<Deco(FALSE, "staticmethod")>> }

Shapes == {"flat", "for", "def", "multi"}

(***************************************************************************)
(* The input trees.                                                        *)
(*   line 1   class C:                (wrap = "class")                     *)
(*   line 2     def m(r, x):          decorators, parameters, annotation   *)
(*   line 3       A                   a statement, or the header of a      *)
(*   line 4         S2                for / a nested def g(y) holding S2   *)
(*   line 5         S3                and S3, or a statement of 3 lines    *)
(*   line 6       S4                                                       *)
(*   line 7   x                       module-level code                    *)
(* rich: the def is annotated and comment lines lead it, the statements     *)
(* that start a block and S4.                                              *)
(***************************************************************************)
MkTree(wrap, decos, np, rich, shape, c1, c2, c3, c4) ==
    LET inClass == wrap = "class"
        typed == rich
        ll == IF rich THEN <<"# note">> ELSE <<>>
        mparent == IF inClass THEN 3 ELSE 1
        top ==
            (1 :> Node("Module", 0, <<(IF inClass THEN 2 ELSE 4), 11>>, 1, 7))
            @@ (11 :> [Node("Stmt", 1, <<>>, 7, 7) EXCEPT !.facts = <<Use("x", 7, 0)>>])
            @@ (IF inClass
                THEN (2 :> [Node("ClassDef", 1, <<3>>, 1, 6) EXCEPT
                               !.name = "C", !.facts = <<Use("C", 1, 6)>>])
                     @@ (3 :> Node("IndentedBlock", 2, <<4>>, 2, 6))
                ELSE <<>>)
            @@ (4 :> DefNode(mparent, <<5>>, 2, 6, "m", decos, MkParams(np, typed),
                             IF typed THEN "int" ELSE "", ll))
            @@ StmtNodes(10, 5, c4, 6, ll)
        inner == StmtNodes(8, IF shape = "flat" THEN 5 ELSE 7, c2, 4,
                           IF shape = "flat" THEN <<>> ELSE ll)
                 @@ StmtNodes(9, IF shape = "flat" THEN 5 ELSE 7, c3, 5, <<>>)
    IN  CASE shape = "flat" ->
               top @@ (5 :> Node("IndentedBlock", 4, <<6, 8, 9, 10>>, 3, 6))
                   @@ StmtNodes(6, 5, c1, 3, ll) @@ inner
          [] shape = "for" ->
               top @@ (5 :> Node("IndentedBlock", 4, <<6, 10>>, 3, 6))
                   @@ (6 :> [Node("Compound", 5, <<7>>, 3, 5) EXCEPT
                                !.facts = <<Asg("y", 3, 4), Use("y", 3, 4),
                                            Use("x", 3, 9)>>,
                                !.leading = ll])
                   @@ (7 :> Node("IndentedBlock", 6, <<8, 9>>, 4, 5)) @@ inner
          [] shape = "def" ->
               top @@ (5 :> Node("IndentedBlock", 4, <<6, 10>>, 3, 6))
                   @@ (6 :> DefNode(5, <<7>>, 3, 5, "g",
                                    <<>>, <<[name |-> "y", ann |-> ""]>>, "", <<>>))
                   @@ (7 :> Node("IndentedBlock", 6, <<8, 9>>, 4, 5)) @@ inner
          [] shape = "multi" ->
               \* x = f(          a call whose argument list runs over
               \*     await y,    lines 4 and 5
               \*     x)
               top @@ (5 :> Node("IndentedBlock", 4, <<6, 10>>, 3, 6))
                   @@ (6 :> [Node("Stmt", 5, <<16>>, 3, 5) EXCEPT
                                !.facts = <<Asg("x", 3, 0), Use("f", 3, 4),
                                            Use("y", 4, 10), Use("x", 5, 4)>>,
                                !.leading = ll])
                   @@ (16 :> Node("Await", 6, <<>>, 4, 4))

(***************************************************************************)
(* The traversal: libcst walks the tree depth first and calls visit_X on   *)
(* the way down and leave_X on the way up.  Only the node kinds for which  *)
(* FunctionExtractor defines a handler give an event.                      *)
(***************************************************************************)
VisitKinds == {"ClassDef", "FunctionDef", "IndentedBlock", "Return", "Yield", "Await"}
LeaveKinds == {"Module", "ClassDef", "FunctionDef", "IndentedBlock"}

RECURSIVE Walk(_, _)
RECURSIVE WalkAll(_, _)
Walk(t, n) ==
    (IF t[n].kind \in VisitKinds THEN <<[ev |-> "visit", node |-> n]>> ELSE <<>>)
    \o WalkAll(t, t[n].children)
    \o (IF t[n].kind \in LeaveKinds THEN <<[ev |-> "leave", node |-> n]>> ELSE <<>>)
WalkAll(t, cs) == IF cs = <<>> THEN <<>> ELSE Walk(t, Head(cs)) \o WalkAll(t, Tail(cs))

BodyKinds == {"ClassDef", "FunctionDef", "IndentedBlock", "Stmt", "Compound"}

\* the children of n that are statements or blocks (its body)
BodyOf(t, n) == SelectSeq(t[n].children, LAMBDA c : t[c].kind \in BodyKinds)

(***************************************************************************)
(* Nodes of a (possibly rewritten) tree: the node of the input it came     *)
(* from (0 for a synthesized node), its leading lines, its body, and for a *)
(* synthesized node what was synthesized.                                  *)
(***************************************************************************)
OutNode(id, leading, body, syn) ==
    [id |-> id, leading |-> leading, body |-> body, syn |-> syn]

RECURSIVE Original(_, _)
Original(t, n) ==
    LET b == BodyOf(t, n)
    IN  OutNode(n, t[n].leading, [i \in DOMAIN b |-> Original(t, b[i])], <<>>)

\* updated_node as libcst hands it to leave_X: the node with each child
\* replaced by what the child's leave returned (a FlattenSentinel is
\* spliced in); a node without a leave handler returns its updated_node
RECURSIVE UpdatedNode(_, _, _)
UpdatedNode(t, res, n) ==
    LET b == BodyOf(t, n)
        sub == [i \in DOMAIN b |->
                    IF b[i] \in DOMAIN res THEN res[b[i]]
                    ELSE <<UpdatedNode(t, res, b[i])>>]
    IN  OutNode(n, t[n].leading, FlattenSeq(sub), <<>>)

(***************************************************************************)
(* VariableCollector.  assignments and usages are dicts from a name to a   *)
(* set of positions; a dict keeps its keys in insertion order.             *)
(***************************************************************************)
EmptyDict == [keys |-> <<>>, pos |-> <<>>]

DictAdd(d, name, p) ==
    IF Contains(d.keys, name)
    THEN [d EXCEPT !.pos = [d.pos EXCEPT ![name] = @ \cup {p}]]
    ELSE [keys |-> Append(d.keys, name), pos |-> (name :> {p}) @@ d.pos]

_track_node(c, f) ==
    IF f.asg
    THEN [c EXCEPT !.assignments = DictAdd(@, f.name, <<f.line, f.col>>),
                   !.types = IF f.ann # "" THEN (f.name :> f.ann) @@ @ ELSE @]
    ELSE [c EXCEPT !.usages = DictAdd(@, f.name, <<f.line, f.col>>)]

RECURSIVE TrackAll(_, _)
TrackAll(c, fs) == IF fs = <<>> THEN c ELSE TrackAll(_track_node(c, Head(fs)), Tail(fs))

\* VariableCollector.visit_Return: a returned bare name takes the return
\* annotation of the innermost function
CollectorVisitReturn(c, t, n, fstack) ==
    IF fstack = <<>> \/ t[n].value = "" THEN c
    ELSE LET fn == t[fstack[Len(fstack)]]
         IN  IF fn.returns # "" THEN [c EXCEPT !.types = (t[n].value :> fn.returns) @@ @]
             ELSE c

\* node.visit(collector): the collector's walk over the subtree of n
RECURSIVE CollectNode(_, _, _, _)
RECURSIVE CollectAll(_, _, _, _)
CollectNode(c, t, n, fstack) ==
    LET fs == IF t[n].kind = "FunctionDef" THEN Append(fstack, n) ELSE fstack
        c1 == IF t[n].kind = "Return" THEN CollectorVisitReturn(c, t, n, fs) ELSE c
        c2 == TrackAll(c1, t[n].facts)
    IN  CollectAll(c2, t, t[n].children, fs)
CollectAll(c, t, cs, fstack) ==
    IF cs = <<>> THEN c
    ELSE CollectAll(CollectNode(c, t, Head(cs), fstack), t, Tail(cs), fstack)

(***************************************************************************)
(* FunctionExtractor: the pure parts.                                      *)
(***************************************************************************)
is_node_in_range(t, cfg, n) ==
    \/ (cfg.start_line <= t[n].first /\ t[n].first <= cfg.end_line)
    \/ (cfg.start_line <= t[n].last /\ t[n].last <= cfg.end_line)
    \/ (t[n].first <= cfg.start_line /\ cfg.start_line <= t[n].last)
    \/ (t[n].first <= cfg.end_line /\ cfg.end_line <= t[n].last)

\* variant: a decorator of any form counts, e.g. @abc.staticmethod
_analyze_decorators_AnyExpression(decorators) ==
    <<\E i \in DOMAIN decorators : decorators[i].value = "staticmethod",
      \E i \in DOMAIN decorators : decorators[i].value = "classmethod">>

\* (is_staticmethod, is_classmethod): only decorators that are a bare Name count
_analyze_decorators(decorators) ==
    LET named(v) == \E i \in DOMAIN decorators :
                        decorators[i].isName /\ decorators[i].value = v
    IN  <<named("staticmethod"),
          \E i \in DOMAIN decorators :
              /\ decorators[i].isName
              /\ decorators[i].value = "classmethod">>

\* the positions of d[name] that satisfy keep, per key, keys in d's order
Partition(d, keep(_)) ==
    LET sel(name) == {p \in d.pos[name] : keep(p)}
        ks == SelectSeq(d.keys, LAMBDA name : sel(name) # {})
    IN  [keys |-> ks, pos |-> [name \in Range(ks) |-> sel(name)]]

\* sorted(xs, key): Python's sort is stable; insertion sort is too.
\* key is a function from the elements to (line, column) positions
RECURSIVE InsertSorted(_, _, _)
InsertSorted(sorted, x, key) ==
    IF sorted = <<>> THEN <<x>>
    ELSE IF PosLess(key[x], key[Head(sorted)])
         THEN <<x>> \o sorted
         ELSE <<Head(sorted)>> \o InsertSorted(Tail(sorted), x, key)

RECURSIVE SortedBy(_, _)
SortedBy(xs, key) ==
    IF xs = <<>> THEN <<>>
    ELSE InsertSorted(SortedBy(SubSeq(xs, 1, Len(xs) - 1), key), xs[Len(xs)], key)

\* variant: every name assigned in the span is returned
ReturnVars_AllAssigned(assignments_during, usage_after) == assignments_during.keys

\* return_vars: the names assigned during the span that are used after it
ReturnVars(assignments_during, usage_after) ==
    SelectSeq(assignments_during.keys, LAMBDA x : Contains(usage_after.keys, x))

\* variant: every name used in the span is passed in
Params_NoBeforeCheck(usage_during, assignments_before) == usage_during.keys

\* variant: the parameters stay in order of first use
Params_Unsorted(usage_during, assignments_before) ==
    SelectSeq(usage_during.keys, LAMBDA x : Contains(assignments_before.keys, x))

\* params: the names used during the span that are assigned before it,
\* sorted by their earliest assignment before the span
Params(usage_during, assignments_before) ==
    LET unsorted == SelectSeq(usage_during.keys,
                              LAMBDA x : Contains(assignments_before.keys, x))
    IN  SortedBy(unsorted,
                 [x \in Range(unsorted) |-> MinPos(assignments_before.pos[x])])

\* returns <<return_vars, params>>
analyze_variables(c, cfg) ==
    LET assignments_before == Partition(c.assignments, LAMBDA p : p[1] < cfg.start_line)
        assignments_during ==
            Partition(c.assignments,
                      LAMBDA p : ~(p[1] < cfg.start_line) /\ p[1] <= cfg.end_line)
        usage_after == Partition(c.usages, LAMBDA p : p[1] > cfg.end_line)
        usage_during ==
            Partition(c.usages,
                      LAMBDA p : ~(p[1] > cfg.end_line) /\ p[1] >= cfg.start_line)
    IN  <<ReturnVars(assignments_during, usage_after),
          Params(usage_during, assignments_before)>>

\* variant: the annotation is inferred from the return variables also when
\* the span returns
get_return_type_FromVariables(t, st, c, return_vars) ==
    IF return_vars = <<>> THEN <<>>
    ELSE IF Len(return_vars) = 1
         THEN IF return_vars[1] \in DOMAIN c.types THEN <<c.types[return_vars[1]]>>
              ELSE <<>>
    ELSE IF \A i \in DOMAIN return_vars : return_vars[i] \in DOMAIN c.types
         THEN <<"tuple">> \o [i \in DOMAIN return_vars |-> c.types[return_vars[i]]]
         ELSE <<>>

\* an annotation is <<>> (none), <<t>> or <<"tuple", t1, ..., tn>>
get_return_type(t, st, c, return_vars) ==
    IF st.contains_return
    THEN IF st.target_function_node # 0 /\ t[st.target_function_node].returns # ""
         THEN <<t[st.target_function_node].returns>>
         ELSE <<>>
    ELSE IF return_vars = <<>> THEN <<>>
    ELSE IF Len(return_vars) = 1
         THEN IF return_vars[1] \in DOMAIN c.types THEN <<c.types[return_vars[1]]>>
              ELSE <<>>
    ELSE IF \A i \in DOMAIN return_vars : return_vars[i] \in DOMAIN c.types
         THEN <<"tuple">> \o [i \in DOMAIN return_vars |-> c.types[return_vars[i]]]
         ELSE <<>>

NewFunctionInformation(receiver_name, decorators, callsite_params,
                       declaration_params, return_vars, return_type) ==
    [receiver_name |-> receiver_name, decorators |-> decorators,
     callsite_params |-> callsite_params, declaration_params |-> declaration_params,
     return_vars |-> return_vars, return_type |-> return_type]

\* variant: the first parameter is the receiver of a staticmethod too
ReceiverName_FirstParam(t, parent_function, grandparent, is_staticmethod) ==
    IF t[parent_function].params # <<>>
    THEN t[parent_function].params[1].name ELSE ""

\* the receiver of a method: the class's name for a staticmethod, else the
\* name of the first formal parameter ("" is None)
ReceiverName(t, parent_function, grandparent, is_staticmethod) ==
    IF is_staticmethod THEN t[grandparent].name
    ELSE IF t[parent_function].params # <<>>
         THEN t[parent_function].params[1].name ELSE ""

\* the decorators of the new function
Decorators(is_staticmethod, is_classmethod) ==
    IF is_staticmethod THEN <<"staticmethod">>
    ELSE IF is_classmethod THEN <<"classmethod">> ELSE <<>>

\* variant: the receiver is put last in the declaration
ReinsertReceiver_Last(params, receiver_name) ==
    LET removed == IF Contains(params, receiver_name)
                   THEN RemoveFirst(params, receiver_name) ELSE params
    IN  [callsite_params |-> removed,
         declaration_params |-> Append(removed, receiver_name)]

\* variant: the receiver is not taken out of the declaration
ReinsertReceiver_KeepDeclared(params, receiver_name) ==
    [callsite_params |-> IF Contains(params, receiver_name)
                         THEN RemoveFirst(params, receiver_name) ELSE params,
     declaration_params |-> <<receiver_name>> \o params]

\* the receiver leaves both parameter lists and leads the declaration
ReinsertReceiver(params, receiver_name) ==
    LET removed == IF Contains(params, receiver_name)
                   THEN RemoveFirst(params, receiver_name) ELSE params
    IN  [callsite_params |-> removed,
         declaration_params |-> <<receiver_name>> \o removed]

\* variant: the outermost open scope is taken for the function's parent
Grandparent_Outermost(scope) == IF Len(scope) >= 2 THEN scope[1] ELSE 0

\* the scope just outside the innermost one (0 if there is none)
Grandparent(scope) == IF Len(scope) >= 2 THEN scope[Len(scope) - 1] ELSE 0

compute_call_information(t, cfg, st, c) ==
    LET av == analyze_variables(c, cfg)
        return_vars == av[1]
        params == av[2]
        return_type == get_return_type(t, st, c, return_vars)
        scope == st.current_scope
        parent_function ==
            IF scope # <<>> /\ t[scope[Len(scope)]].kind = "FunctionDef"
            THEN scope[Len(scope)] ELSE 0
        grandparent == Grandparent(scope)
        plain == NewFunctionInformation("", <<>>, params, params, return_vars, return_type)
    IN  IF parent_function = 0 THEN plain
        ELSE IF grandparent = 0 \/ t[grandparent].kind # "ClassDef" THEN plain
        ELSE LET ad == _analyze_decorators(t[parent_function].decorators)
                 is_staticmethod == ad[1]
                 is_classmethod == ad[2]
                 receiver_name == ReceiverName(t, parent_function, grandparent,
                                               is_staticmethod)
                 decorators == Decorators(is_staticmethod, is_classmethod)
                 lists == ReinsertReceiver(params, receiver_name)
             IN  IF ~is_staticmethod /\ receiver_name # ""
                 THEN NewFunctionInformation(receiver_name, decorators,
                                             lists.callsite_params,
                                             lists.declaration_params,
                                             return_vars, return_type)
                 ELSE NewFunctionInformation(receiver_name, decorators, params, params,
                                             return_vars, return_type)

\* variant: yield from takes precedence over await
create_function_call_YieldFirst(cfg, st, call_info, call_args) ==
    [receiver |-> call_info.receiver_name, func |-> cfg.new_func_name,
     args |-> call_args,
     wrap |-> IF st.contains_yield THEN "yield from"
              ELSE IF st.contains_await THEN "await" ELSE "",
     paren |-> st.contains_yield]

\* the call expression: wrap is "await", "yield from" or "" (the bare call);
\* paren records the parentheses a Yield node is built with
create_function_call(cfg, st, call_info, call_args) ==
    [receiver |-> call_info.receiver_name, func |-> cfg.new_func_name,
     args |-> call_args,
     wrap |-> IF st.contains_await THEN "await"
              ELSE IF st.contains_yield THEN "yield from" ELSE "",
     paren |-> ~st.contains_await /\ st.contains_yield]

\* the statement is "assign" (targets = value), "return" or "expr"
CallStmt(stmt, targets, value) ==
    OutNode(0, <<>>, <<>>,
            <<[kind |-> "CallStmt", stmt |-> stmt, targets |-> targets, value |-> value]>>)

create_return_assignment_targets(call_info, func_call) ==
    CallStmt("assign", call_info.return_vars, func_call)

\* the chain "await, else return, else yield from, else assign, else bare"
create_call_statement_to_new_function_Chain(cfg, st, call_info) ==
    LET func_call == [create_function_call(cfg, st, call_info,
                                           call_info.callsite_params)
                         EXCEPT !.paren = FALSE]
    IN  IF st.contains_await THEN CallStmt("expr", <<>>, func_call)
        ELSE IF st.contains_return
        THEN CallStmt("return", <<>>, [func_call EXCEPT !.wrap = ""])
        ELSE IF call_info.return_vars # <<>>
        THEN create_return_assignment_targets(call_info, func_call)
        ELSE CallStmt("expr", <<>>, func_call)

create_call_statement_to_new_function(cfg, st, call_info) ==
    LET call_args == call_info.callsite_params
        func_call == create_function_call(cfg, st, call_info, call_args)
    IN  IF st.contains_return
        THEN CallStmt("return", <<>>, func_call)
        ELSE LET bare == [func_call EXCEPT !.paren = FALSE]
             IN  IF call_info.return_vars # <<>>
                 THEN create_return_assignment_targets(call_info, bare)
                 ELSE CallStmt("expr", <<>>, bare)

\* variant: a statement that starts on end_line belongs to no run
Section_Strict(t, cfg, n) ==
    IF t[n].first < cfg.start_line THEN "preamble"
    ELSE IF t[n].first > cfg.end_line THEN "postamble"
    ELSE IF t[n].first < cfg.end_line THEN "body"
    ELSE "none"

\* variant: a statement that shares a line with the span belongs to the body
Section_ByOverlap(t, cfg, n) ==
    IF t[n].last < cfg.start_line THEN "preamble"
    ELSE IF t[n].first > cfg.end_line THEN "postamble"
    ELSE "body"

\* where split_original_code puts statement n of the block: decided by the
\* line the statement starts on
Section(t, cfg, n) ==
    IF t[n].first < cfg.start_line THEN "preamble"
    ELSE IF t[n].first > cfg.end_line THEN "postamble"
    ELSE "body"

\* variant: the leading lines are copied onto the call and stay on the
\* statement as well
MoveLeadingLines_Copy(func_call, body) ==
    IF body # <<>> /\ body[1].leading # <<>>
    THEN [call |-> [func_call EXCEPT !.leading = body[1].leading],
          new_func_body |-> body]
    ELSE [call |-> func_call, new_func_body |-> body]

\* the leading lines (comments, blank lines) of the first statement of the
\* body move onto the call statement
MoveLeadingLines(func_call, body) ==
    IF body # <<>> /\ body[1].leading # <<>>
    THEN [call |-> [func_call EXCEPT !.leading = body[1].leading],
          new_func_body |-> [body EXCEPT ![1].leading = <<>>]]
    ELSE [call |-> func_call, new_func_body |-> body]

\* returns the rewritten block, the statements of the new function and the
\* three runs the block's statements were split into
split_original_code(t, cfg, st, original_node, call_info) ==
    LET func_call == create_call_statement_to_new_function(cfg, st, call_info)
        stmts == BodyOf(t, original_node)
        pre == SelectSeq(stmts, LAMBDA n : Section(t, cfg, n) = "preamble")
        post == SelectSeq(stmts, LAMBDA n : Section(t, cfg, n) = "postamble")
        mid == SelectSeq(stmts, LAMBDA n : Section(t, cfg, n) = "body")
        preamble == [i \in DOMAIN pre |-> Original(t, pre[i])]
        postamble == [i \in DOMAIN post |-> Original(t, post[i])]
        body == [i \in DOMAIN mid |-> Original(t, mid[i])]
        moved == MoveLeadingLines(func_call, body)
        call == moved.call
        new_func_body == moved.new_func_body
    IN  [updated |-> OutNode(original_node, t[original_node].leading,
                             preamble \o <<call>> \o postamble, <<>>),
         new_func_body |-> new_func_body,
         preamble |-> pre, body |-> mid, postamble |-> post, call |-> call]

create_return_statement(return_vars) ==
    OutNode(0, <<>>, <<>>, <<[kind |-> "Return", names |-> return_vars]>>)

\* variant: a generator is annotated like any other function
ReturnAnnotation_AlsoGenerators(st, call_info) == call_info.return_type

\* the return annotation of the new function: none for a generator
ReturnAnnotation(st, call_info) ==
    IF st.contains_yield THEN <<>> ELSE call_info.return_type

\* variant: the return variables are returned whatever the span holds
NewFunctionStatements_AlwaysReturnVars(st, call_info, new_func_body) ==
    IF call_info.return_vars # <<>>
    THEN Append(new_func_body, create_return_statement(call_info.return_vars))
    ELSE new_func_body

\* the statements of the new function: the body, and a return of the return
\* variables unless the span returns itself
NewFunctionStatements(st, call_info, new_func_body) ==
    IF ~st.contains_return /\ call_info.return_vars # <<>>
    THEN Append(new_func_body, create_return_statement(call_info.return_vars))
    ELSE new_func_body

create_new_function(cfg, st, c, call_info, new_func_body) ==
    LET new_params == [i \in DOMAIN call_info.declaration_params |->
                          LET param == call_info.declaration_params[i]
                          IN  [name |-> param,
                               ann |-> IF param \in DOMAIN c.types
                                       THEN c.types[param] ELSE ""]]
        return_annotation == ReturnAnnotation(st, call_info)
        body == NewFunctionStatements(st, call_info, new_func_body)
    IN  OutNode(0, <<>>,
                <<OutNode(0, <<>>, body, <<[kind |-> "IndentedBlock"]>>)>>,
                <<[kind |-> "FunctionDef", name |-> cfg.new_func_name,
                   params |-> new_params, returns |-> return_annotation,
                   decorators |-> call_info.decorators,
                   asynchronous |-> st.contains_await]>>)

(***************************************************************************)
(* State.                                                                  *)
(***************************************************************************)
ParserState ==
    [target_function_node |-> 0, lowest_indented_block |-> 0,
     new_function_def |-> <<>>, contains_return |-> FALSE,
     contains_await |-> FALSE, contains_yield |-> FALSE,
     is_classmethod |-> FALSE, is_staticmethod |-> FALSE,
     current_scope |-> <<>>, added_new_function |-> FALSE]

VariableCollector == [assignments |-> EmptyDict, usages |-> EmptyDict, types |-> <<>>]

\* ExtractMethod.refactor names the new function "new_func"
ExtractMethodConfig(start_line, end_line) ==
    [new_func_name |-> "new_func", start_line |-> start_line, end_line |-> end_line]

Forms == {"aug", "ann", "ret", "yld", "awt", "asr"}

\* every pair of statement forms in every shape, inside an instance method
ContentTrees ==
    {MkTree("class", <<>>, np, rich, shape, "asg", c2, c3, "use") :
        np \in {MaxParams - 1, MaxParams}, rich \in BOOLEAN, shape \in Shapes,
        c2 \in Forms, c3 \in Forms}

\* every kind of enclosing scope, around statements that read and bind the
\* receiver name
ScopeTrees ==
    {MkTree(wd[1], wd[2], np, rich, shape, "asg", c2, "aug", "rcv") :
        wd \in {<<"none", <<>>>>} \cup ({"class"} \X DecoChoices),
        np \in 0..MaxParams, rich \in BOOLEAN, shape \in {"flat", "for", "def"},
        c2 \in {"rcv", "asr"}}

Trees == ContentTrees \cup ScopeTrees

Init ==
    /\ tree \in Trees
    /\ \E s \in 1..MaxLine, e \in 1..MaxLine :
          s <= e /\ config = ExtractMethodConfig(s, e)
    /\ todo = Walk(tree, 1)
    /\ state = ParserState
    /\ collector = VariableCollector
    /\ result = <<>>
    /\ split = <<>>
    /\ output = <<>>
    /\ ranges = <<>>
    /\ walk = <<>>
    /\ server = <<>>
    /\ texts = <<>>

(***************************************************************************)
(* Actions: one per handler of FunctionExtractor.                          *)
(***************************************************************************)
At(ev, kind) ==
    /\ todo # <<>>
    /\ todo[1].ev = ev
    /\ tree[todo[1].node].kind = kind

Here == todo[1].node

Returned(n, nodes) == (n :> nodes) @@ result

visit_ClassDef ==
    /\ At("visit", "ClassDef")
    /\ state' = [state EXCEPT !.current_scope = Append(@, Here)]
    /\ todo' = Tail(todo)
    /\ UNCHANGED <<ranges, walk, server, texts, tree, config, collector, result, split, output>>

\* variant: leaving a class leaves the scope stack alone
leave_ClassDef_NoPop ==
    /\ At("leave", "ClassDef")
    /\ result' = Returned(Here, <<UpdatedNode(tree, result, Here)>>)
    /\ todo' = Tail(todo)
    /\ UNCHANGED <<ranges, walk, server, texts, tree, config, state, collector, split, output>>

leave_ClassDef ==
    /\ At("leave", "ClassDef")
    /\ state' = [state EXCEPT !.current_scope = SubSeq(@, 1, Len(@) - 1)]
    /\ result' = Returned(Here, <<UpdatedNode(tree, result, Here)>>)
    /\ todo' = Tail(todo)
    /\ UNCHANGED <<ranges, walk, server, texts, tree, config, collector, split, output>>

visit_FunctionDef ==
    /\ At("visit", "FunctionDef")
    /\ IF is_node_in_range(tree, config, Here)
       THEN /\ state' = [state EXCEPT !.current_scope = Append(@, Here),
                                      !.target_function_node = Here]
            /\ collector' = CollectNode(collector, tree, Here, <<>>)
       ELSE /\ state' = [state EXCEPT !.current_scope = Append(@, Here)]
            /\ UNCHANGED collector
    /\ todo' = Tail(todo)
    /\ UNCHANGED <<ranges, walk, server, texts, tree, config, result, split, output>>

\* variant: the rewritten module is returned whatever happened
ModuleResult_AlwaysUpdated(st, original_node, updated_node) == updated_node

\* what leave_Module returns
ModuleResult(st, original_node, updated_node) ==
    IF st.added_new_function THEN updated_node ELSE original_node

leave_Module ==
    /\ At("leave", "Module")
    /\ output' = <<ModuleResult(state, Original(tree, Here),
                                UpdatedNode(tree, result, Here))>>
    /\ todo' = Tail(todo)
    /\ UNCHANGED <<ranges, walk, server, texts, tree, config, state, collector, result, split>>

\* variant: the new function follows the function it was taken from
Spliced_After(new_function_def, updated_node) ==
    <<updated_node, [new_function_def EXCEPT !.leading = <<"">>]>>

\* the FlattenSentinel leave_FunctionDef returns on success
Spliced(new_function_def, updated_node) ==
    <<[new_function_def EXCEPT !.leading = updated_node.leading],
      IF updated_node.leading = <<>>
      THEN [updated_node EXCEPT !.leading = <<"">>] ELSE updated_node>>

leave_FunctionDef ==
    /\ At("leave", "FunctionDef")
    /\ LET popped == [state EXCEPT !.current_scope = SubSeq(@, 1, Len(@) - 1)]
           updated_node == UpdatedNode(tree, result, Here)
       IN  IF Here # state.target_function_node
           THEN /\ state' = popped
                /\ result' = Returned(Here, <<updated_node>>)
           ELSE IF state.new_function_def = <<>>
           THEN /\ state' = [popped EXCEPT !.target_function_node = 0]
                /\ result' = Returned(Here, <<updated_node>>)
           ELSE /\ state' = [popped EXCEPT
                                !.target_function_node = 0,
                                !.new_function_def =
                                    <<Spliced(state.new_function_def[1], updated_node)[1]>>,
                                !.added_new_function = TRUE]
                /\ result' = Returned(Here, Spliced(state.new_function_def[1],
                                                    updated_node))
    /\ todo' = Tail(todo)
    /\ UNCHANGED <<ranges, walk, server, texts, tree, config, collector, split, output>>

\* variant: the first qualifying block, the shallowest, is kept
visit_IndentedBlock_KeepFirst ==
    /\ At("visit", "IndentedBlock")
    /\ state' = IF /\ tree[Here].first <= config.start_line
                   /\ tree[Here].last >= config.end_line
                   /\ state.lowest_indented_block = 0
                THEN [state EXCEPT !.lowest_indented_block = Here]
                ELSE state
    /\ todo' = Tail(todo)
    /\ UNCHANGED <<ranges, walk, server, texts, tree, config, collector, result, split, output>>

visit_IndentedBlock ==
    /\ At("visit", "IndentedBlock")
    /\ state' = IF tree[Here].first <= config.start_line
                   /\ tree[Here].last >= config.end_line
                THEN [state EXCEPT !.lowest_indented_block = Here]
                ELSE state
    /\ todo' = Tail(todo)
    /\ UNCHANGED <<ranges, walk, server, texts, tree, config, collector, result, split, output>>

visit_Return ==
    /\ At("visit", "Return")
    /\ state' = IF is_node_in_range(tree, config, Here)
                THEN [state EXCEPT !.contains_return = TRUE] ELSE state
    /\ todo' = Tail(todo)
    /\ UNCHANGED <<ranges, walk, server, texts, tree, config, collector, result, split, output>>

visit_Yield ==
    /\ At("visit", "Yield")
    /\ state' = IF is_node_in_range(tree, config, Here)
                THEN [state EXCEPT !.contains_yield = TRUE] ELSE state
    /\ todo' = Tail(todo)
    /\ UNCHANGED <<ranges, walk, server, texts, tree, config, collector, result, split, output>>

\* variant: every await of the module counts, not only those of the span
visit_Await_AnyLine ==
    /\ At("visit", "Await")
    /\ state' = [state EXCEPT !.contains_await = TRUE]
    /\ todo' = Tail(todo)
    /\ UNCHANGED <<ranges, walk, server, texts, tree, config, collector, result, split, output>>

visit_Await ==
    /\ At("visit", "Await")
    /\ state' = IF is_node_in_range(tree, config, Here)
                THEN [state EXCEPT !.contains_await = TRUE] ELSE state
    /\ todo' = Tail(todo)
    /\ UNCHANGED <<ranges, walk, server, texts, tree, config, collector, result, split, output>>

leave_IndentedBlock ==
    /\ At("leave", "IndentedBlock")
    /\ IF Here # state.lowest_indented_block
       THEN /\ result' = Returned(Here, <<UpdatedNode(tree, result, Here)>>)
            /\ UNCHANGED <<state, split>>
       ELSE LET st == [state EXCEPT !.lowest_indented_block = 0]
                call_info == compute_call_information(tree, config, st, collector)
                sp == split_original_code(tree, config, st, Here, call_info)
            IN  /\ split' = <<[block |-> Here, call_info |-> call_info,
                               preamble |-> sp.preamble, body |-> sp.body,
                               postamble |-> sp.postamble, call |-> sp.call]>>
                /\ IF sp.new_func_body = <<>>
                   THEN /\ state' = st
                        /\ result' = Returned(Here, <<UpdatedNode(tree, result, Here)>>)
                   ELSE /\ state' = [st EXCEPT !.new_function_def =
                                        <<create_new_function(config, st, collector,
                                                              call_info, sp.new_func_body)>>]
                        /\ result' = Returned(Here, <<sp.updated>>)
    /\ todo' = Tail(todo)
    /\ UNCHANGED <<ranges, walk, server, texts, tree, config, collector, output>>

Next ==
    \/ visit_ClassDef
    \/ leave_ClassDef
    \/ visit_FunctionDef
    \/ leave_Module
    \/ leave_FunctionDef
    \/ visit_IndentedBlock
    \/ visit_Return
    \/ visit_Yield
    \/ visit_Await
    \/ leave_IndentedBlock

Spec == Init /\ [][Next]_vars

(***************************************************************************)
(* Vocabulary of the properties, read off the input tree and the span, not *)
(* off the extractor's state.                                              *)
(***************************************************************************)
Done == output # <<>>

\* the closed line interval of n and the span share a line
Overlaps(n) == tree[n].first <= config.end_line /\ tree[n].last >= config.start_line

SpanHas(kind) == \E n \in DOMAIN tree : tree[n].kind = kind /\ Overlaps(n)

\* the innermost class or function that encloses n (0 if none)
RECURSIVE ScopeOf(_)
ScopeOf(n) ==
    LET p == tree[n].parent
    IN  IF p = 0 THEN 0
        ELSE IF tree[p].kind \in {"ClassDef", "FunctionDef"} THEN p
        ELSE ScopeOf(p)

\* the last leave_IndentedBlock that reached the split
TheSplit == split[1]
CallInfo == TheSplit.call_info
CallSite == TheSplit.call.syn[1]
NewFunction == state.new_function_def[1].syn[1]

\* a new function was synthesized and spliced into the tree
Extracted == split # <<>> /\ state.added_new_function

\* the rewritten block sits directly in a method m of a class
InMethod(m) ==
    /\ split # <<>>
    /\ m = ScopeOf(TheSplit.block)
    /\ m # 0
    /\ tree[m].kind = "FunctionDef"
    /\ ScopeOf(m) # 0
    /\ tree[ScopeOf(m)].kind = "ClassDef"

Decorated(m, what) ==
    \E i \in DOMAIN tree[m].decorators :
        tree[m].decorators[i] = Deco(TRUE, what)

(***************************************************************************)
(* C1  Failure idempotence: when the traversal ends without having spliced *)
(* a new function, leave_Module returns the original module, also when a   *)
(* block was rewritten on the way.                                         *)
(***************************************************************************)
C1_FailureIdempotence ==
    (Done /\ ~state.added_new_function) => output[1] = Original(tree, 1)

\* a block was rewritten and a function synthesized, but nothing was spliced
C1_Witness ==
    /\ Done
    /\ ~state.added_new_function
    /\ state.new_function_def # <<>>
    /\ UpdatedNode(tree, result, 1) # Original(tree, 1)

(***************************************************************************)
(* What the collector recorded, by region of the span.                     *)
(***************************************************************************)
Recorded(d, name) == IF name \in DOMAIN d.pos THEN d.pos[name] ELSE {}

AssignedBefore(x) ==
    \E p \in Recorded(collector.assignments, x) : p[1] < config.start_line
AssignedDuring(x) ==
    \E p \in Recorded(collector.assignments, x) :
        config.start_line <= p[1] /\ p[1] <= config.end_line
UsedDuring(x) ==
    \E p \in Recorded(collector.usages, x) :
        config.start_line <= p[1] /\ p[1] <= config.end_line
UsedAfter(x) ==
    \E p \in Recorded(collector.usages, x) : p[1] > config.end_line

Names == Range(collector.assignments.keys) \cup Range(collector.usages.keys)

\* the receiver name was put in front of the declaration parameters
ReceiverReinserted(ci) ==
    /\ ci.receiver_name # ""
    /\ ci.declaration_params = <<ci.receiver_name>> \o ci.callsite_params

(***************************************************************************)
(* C2  Parameter/return disjointness, as claimed: the return variables and *)
(* the declaration parameters have no name in common except the receiver   *)
(* name re-inserted as leading declaration parameter.  The code does not   *)
(* keep this: a name bound before the span, read in it, bound again in it  *)
(* and read after it is both passed in and returned.                       *)
(***************************************************************************)
C2_Disjoint_AsClaimed ==
    split # <<>> =>
        \A v \in Range(CallInfo.return_vars) \cap Range(CallInfo.declaration_params) :
            ReceiverReinserted(CallInfo) /\ v = CallInfo.receiver_name

(***************************************************************************)
(* C2 (amended)  A name common to the return variables and the declaration *)
(* parameters is either the re-inserted receiver or a name that is bound   *)
(* both before the span and inside it, read inside the span and read after *)
(* it.                                                                     *)
(***************************************************************************)
C2_DisjointUnlessRebound ==
    split # <<>> =>
        \A v \in Range(CallInfo.return_vars) \cap Range(CallInfo.declaration_params) :
            \/ ReceiverReinserted(CallInfo) /\ v = CallInfo.receiver_name
            \/ AssignedBefore(v) /\ UsedDuring(v) /\ AssignedDuring(v) /\ UsedAfter(v)

\* a successful extraction where x is passed in and returned, and the
\* receiver is neither
C2_Witness ==
    /\ Extracted
    /\ Contains(CallInfo.return_vars, "x")
    /\ Contains(CallInfo.declaration_params, "x")
    /\ CallInfo.receiver_name = "r"
    /\ ~Contains(CallInfo.return_vars, "r")

(***************************************************************************)
(* C3  Suspension propagation: on a successful extraction the new function *)
(* is asynchronous, and its call is wrapped in await, exactly when some    *)
(* await expression's lines overlap the span; an await elsewhere in the    *)
(* enclosing function does not count.                                      *)
(***************************************************************************)
C3_SuspensionPropagation ==
    Extracted =>
        /\ NewFunction.asynchronous <=> SpanHas("Await")
        /\ (CallSite.value.wrap = "await") <=> SpanHas("Await")

\* an extraction that is not asynchronous although the function awaits
\* outside the span
C3_Witness ==
    /\ Extracted
    /\ ~NewFunction.asynchronous
    /\ CallSite.value.wrap # "await"
    /\ \E n \in DOMAIN tree :
          tree[n].kind = "Await" /\ ~Overlaps(n) /\ ScopeOf(n) = ScopeOf(TheSplit.block)

(***************************************************************************)
(* C4  Generator propagation, as claimed: the call is a `yield from`       *)
(* exactly when the span holds a yield and no await, and then the          *)
(* yield-from is assigned to the return variables if there are any and is  *)
(* a bare expression statement otherwise.  The second half fails when the  *)
(* span also holds a return: the statement is `return (yield from ...)`.   *)
(***************************************************************************)
C4_Generator_AsClaimed ==
    Extracted =>
        /\ (CallSite.value.wrap = "yield from")
              <=> (SpanHas("Yield") /\ ~SpanHas("Await"))
        /\ CallSite.value.wrap = "yield from" =>
              IF CallInfo.return_vars # <<>>
              THEN CallSite.stmt = "assign" /\ CallSite.targets = CallInfo.return_vars
              ELSE CallSite.stmt = "expr"

(***************************************************************************)
(* C4 (amended)  The call is a `yield from` exactly when the span holds a  *)
(* yield and no await.  When the span holds no return statement the        *)
(* yield-from is assigned to the return variables if there are any and is  *)
(* a bare expression statement otherwise; when the span holds a return     *)
(* statement the parenthesized yield-from is the value of a return         *)
(* statement.                                                              *)
(***************************************************************************)
C4_GeneratorPropagation ==
    Extracted =>
        /\ (CallSite.value.wrap = "yield from")
              <=> (SpanHas("Yield") /\ ~SpanHas("Await"))
        /\ CallSite.value.wrap = "yield from" =>
              IF SpanHas("Return")
              THEN CallSite.stmt = "return" /\ CallSite.value.paren
              ELSE IF CallInfo.return_vars # <<>>
              THEN /\ CallSite.stmt = "assign"
                   /\ CallSite.targets = CallInfo.return_vars
                   /\ ~CallSite.value.paren
              ELSE CallSite.stmt = "expr" /\ ~CallSite.value.paren

\* a yield-from assigned to return variables
C4_Witness ==
    /\ Extracted
    /\ SpanHas("Yield")
    /\ CallSite.value.wrap = "yield from"
    /\ CallSite.stmt = "assign"
    /\ CallInfo.return_vars # <<>>

(***************************************************************************)
(* C5  Receiver correctness: extracting from an instance or class method   *)
(* whose first formal parameter is r gives a declaration that starts with  *)
(* r and the call r.<new_name>(...); extracting from a static method of    *)
(* class C gives the call C.<new_name>(...) and a declaration with no      *)
(* receiver parameter (its parameters are the call's arguments).           *)
(***************************************************************************)
ParamNamesOf(f) == [i \in DOMAIN f.params |-> f.params[i].name]

C5_ReceiverCorrectness ==
    Extracted =>
        \A m \in DOMAIN tree :
            InMethod(m) =>
                /\ CallSite.value.func = config.new_func_name
                /\ IF Decorated(m, "staticmethod")
                   THEN /\ CallSite.value.receiver = tree[ScopeOf(m)].name
                        /\ ParamNamesOf(NewFunction) = CallSite.value.args
                   ELSE tree[m].params # <<>> =>
                           /\ ParamNamesOf(NewFunction)[1] = tree[m].params[1].name
                           /\ CallSite.value.receiver = tree[m].params[1].name

\* an instance method whose receiver is read inside the span
C5_Witness ==
    /\ Extracted
    /\ InMethod(4)
    /\ tree[4].decorators = <<>>
    /\ tree[4].params # <<>>
    /\ UsedDuring(tree[4].params[1].name)
    /\ CallSite.value.receiver = "r"
    /\ ParamNamesOf(NewFunction)[1] = "r"

(***************************************************************************)
(* C6  Capability markers: the new function is decorated staticmethod      *)
(* exactly when the enclosing method (a direct child of a class) is        *)
(* decorated staticmethod, classmethod exactly when that method is         *)
(* decorated classmethod and not staticmethod, and not at all otherwise.   *)
(***************************************************************************)
C6_CapabilityMarkers ==
    state.new_function_def # <<>> =>
        LET m == ScopeOf(TheSplit.block)
        IN  NewFunction.decorators =
                IF InMethod(m) /\ Decorated(m, "staticmethod") THEN <<"staticmethod">>
                ELSE IF InMethod(m) /\ Decorated(m, "classmethod") THEN <<"classmethod">>
                ELSE <<>>

\* a method decorated both ways: the new function is a staticmethod only
C6_Witness ==
    /\ Extracted
    /\ InMethod(4)
    /\ Decorated(4, "staticmethod")
    /\ Decorated(4, "classmethod")
    /\ NewFunction.decorators = <<"staticmethod">>

(***************************************************************************)
(* C7  Parameter derivation: analyze_variables returns as parameters       *)
(* exactly the names with a usage on a line of the span and an assignment  *)
(* on a line before it, each once, in ascending order of the earliest      *)
(* (line, column) of their assignments before the span.                    *)
(***************************************************************************)
EarliestBefore(x) ==
    MinPos({p \in Recorded(collector.assignments, x) : p[1] < config.start_line})

NoDuplicates(s) == \A i, j \in DOMAIN s : s[i] = s[j] => i = j

C7_ParameterDerivation ==
    LET params == analyze_variables(collector, config)[2]
    IN  /\ Range(params) = {x \in Names : UsedDuring(x) /\ AssignedBefore(x)}
        /\ NoDuplicates(params)
        /\ \A i, j \in DOMAIN params :
              i < j => PosLess(EarliestBefore(params[i]), EarliestBefore(params[j]))

\* two parameters whose order of first use is not their order of assignment
C7_Witness ==
    /\ Extracted
    /\ LET params == analyze_variables(collector, config)[2]
       IN  /\ Params_Unsorted(
                 Partition(collector.usages,
                           LAMBDA p : config.start_line <= p[1] /\ p[1] <= config.end_line),
                 Partition(collector.assignments,
                           LAMBDA p : p[1] < config.start_line)) # params
           /\ CallInfo.callsite_params = params

(***************************************************************************)
(* C8  Return-variable derivation: analyze_variables returns as return     *)
(* variables exactly the names with an assignment on a line of the span    *)
(* and a usage on a line after it; a name assigned in the span and never   *)
(* read after it is not returned.                                          *)
(***************************************************************************)
C8_ReturnVariableDerivation ==
    LET return_vars == analyze_variables(collector, config)[1]
    IN  /\ Range(return_vars) = {x \in Names : AssignedDuring(x) /\ UsedAfter(x)}
        /\ NoDuplicates(return_vars)

\* one name assigned in the span is returned, another is not
C8_Witness ==
    /\ Extracted
    /\ CallInfo.return_vars # <<>>
    /\ CallInfo.return_vars = analyze_variables(collector, config)[1]
    /\ \E x \in Names :
          AssignedDuring(x) /\ ~UsedAfter(x) /\ ~Contains(CallInfo.return_vars, x)

(***************************************************************************)
(* C9  declaration_params and callsite_params are equal, or                *)
(* declaration_params is callsite_params with one extra leading element,   *)
(* the receiver name, which is absent from callsite_params.                *)
(***************************************************************************)
C9_DeclarationVersusCallsite ==
    split # <<>> =>
        \/ CallInfo.declaration_params = CallInfo.callsite_params
        \/ /\ ReceiverReinserted(CallInfo)
           /\ ~Contains(CallInfo.callsite_params, CallInfo.receiver_name)

\* the receiver qualified as a parameter of its own and was taken out
C9_Witness ==
    /\ Extracted
    /\ ReceiverReinserted(CallInfo)
    /\ UsedDuring(CallInfo.receiver_name)
    /\ AssignedBefore(CallInfo.receiver_name)
    /\ CallInfo.callsite_params # <<>>

(***************************************************************************)
(* C10  Call statement construction, as claimed: a strict priority chain   *)
(* (await wrap; else return wrap; else yield from; else assignment to the  *)
(* return variables; else bare expression), so that at most one of the     *)
(* wrappers await, return, yield from is applied.  The code applies the    *)
(* return wrapper on top of await or yield from.                           *)
(***************************************************************************)
C10_PriorityChain_AsClaimed ==
    Extracted =>
        LET wrap == CallSite.value.wrap
            stmt == CallSite.stmt
        IN  /\ ~(stmt = "return" /\ wrap # "")
            /\ IF SpanHas("Await") THEN wrap = "await"
               ELSE IF SpanHas("Return") THEN stmt = "return"
               ELSE IF SpanHas("Yield") THEN wrap = "yield from"
               ELSE IF CallInfo.return_vars # <<>> THEN stmt = "assign"
               ELSE stmt = "expr"

(***************************************************************************)
(* C10 (amended)  Call statement construction is two choices.  The call    *)
(* expression is wrapped in await if the span holds an await, else in      *)
(* yield from if it holds a yield, else it is the bare call.  The          *)
(* statement is a return of that expression if the span holds a return,    *)
(* else an assignment of it to the return variables if there are any, else *)
(* a bare expression statement.  So await and yield from are never both    *)
(* applied, and either can be combined with the return wrapper.            *)
(***************************************************************************)
C10_CallStatementConstruction ==
    Extracted =>
        /\ CallSite.value.wrap =
              IF SpanHas("Await") THEN "await"
              ELSE IF SpanHas("Yield") THEN "yield from" ELSE ""
        /\ CallSite.stmt =
              IF SpanHas("Return") THEN "return"
              ELSE IF CallInfo.return_vars # <<>> THEN "assign" ELSE "expr"
        /\ CallSite.targets =
              IF CallSite.stmt = "assign" THEN CallInfo.return_vars ELSE <<>>

\* return await new_func(...)
C10_Witness ==
    /\ Extracted
    /\ SpanHas("Await")
    /\ SpanHas("Return")
    /\ CallSite.stmt = "return"
    /\ CallSite.value.wrap = "await"

(***************************************************************************)
(* The new function, read off the synthesized node.                        *)
(***************************************************************************)
\* the statements of the new function
NewFunctionBody == state.new_function_def[1].body[1].body

\* the statement was synthesized: `return <names>`
IsSynthesizedReturn(s) == s.syn # <<>> /\ s.syn[1].kind = "Return"

\* node n lies in the subtree of node a
RECURSIVE IsUnder(_, _)
IsUnder(n, a) == n = a \/ (tree[n].parent # 0 /\ IsUnder(tree[n].parent, a))

\* statement s of a rewritten tree is the input's statement n, its leading
\* lines possibly taken away
SameStatement(s, n) == [s EXCEPT !.leading = tree[n].leading] = Original(tree, n)

\* the new function holds, unchanged, the statement around input node n
Keeps(n) ==
    \E i \in DOMAIN NewFunctionBody :
        /\ NewFunctionBody[i].id # 0
        /\ IsUnder(n, NewFunctionBody[i].id)
        /\ SameStatement(NewFunctionBody[i], NewFunctionBody[i].id)

(***************************************************************************)
(* C11  When the span holds a return statement and a yield expression and  *)
(* no await, the statement that replaces the span is                       *)
(* `return (yield from <new_name>(...))`, the new function keeps the       *)
(* original return statement, and no synthesized return is appended.  The  *)
(* code does not keep this for a span that starts inside a compound        *)
(* statement: the flags count every return and yield whose lines overlap   *)
(* the span, but split_original_code leaves a statement that starts before *)
(* the span in the preamble.                                               *)
(***************************************************************************)
C11_ReturnOfYieldFrom ==
    (Extracted /\ SpanHas("Return") /\ SpanHas("Yield") /\ ~SpanHas("Await")) =>
        /\ CallSite.stmt = "return"
        /\ CallSite.targets = <<>>
        /\ CallSite.value.wrap = "yield from"
        /\ CallSite.value.paren
        /\ CallSite.value.func = config.new_func_name
        /\ \A n \in DOMAIN tree : (tree[n].kind = "Return" /\ Overlaps(n)) => Keeps(n)
        /\ \A i \in DOMAIN NewFunctionBody : ~IsSynthesizedReturn(NewFunctionBody[i])

\* the span starts inside a loop that returns and yields and runs past the
\* loop: the loop stays where it is and the new function holds no return
C11_Witness ==
    /\ Extracted
    /\ SpanHas("Return")
    /\ SpanHas("Yield")
    /\ ~SpanHas("Await")
    /\ CallSite.stmt = "return"
    /\ CallSite.value.wrap = "yield from"
    /\ \E n \in DOMAIN tree : tree[n].kind = "Return" /\ Overlaps(n) /\ ~Keeps(n)

(***************************************************************************)
(* C12  When a return statement's lines overlap the span and no yield's    *)
(* do, the statement that replaces the span is a return of the call, the   *)
(* new function's return annotation is the return annotation of the        *)
(* function that encloses the rewritten block (none if it has none), and   *)
(* the call's result is assigned to no return variable.                    *)
(***************************************************************************)
\* an optional annotation of the input as an annotation of the output
AnnotationOf(returns) == IF returns = "" THEN <<>> ELSE <<returns>>

C12_ReturnPassThrough ==
    (Extracted /\ SpanHas("Return") /\ ~SpanHas("Yield")) =>
        LET f == ScopeOf(TheSplit.block)
        IN  /\ f # 0
            /\ tree[f].kind = "FunctionDef"
            /\ CallSite.stmt = "return"
            /\ CallSite.targets = <<>>
            /\ CallSite.value.func = config.new_func_name
            /\ NewFunction.returns = AnnotationOf(tree[f].returns)

\* the span returns and binds y: str, which is read after it; the new
\* function is annotated with the enclosing function's int
C12_Witness ==
    /\ Extracted
    /\ SpanHas("Return")
    /\ ~SpanHas("Yield")
    /\ CallInfo.return_vars = <<"y">>
    /\ "y" \in DOMAIN collector.types
    /\ collector.types["y"] = "str"
    /\ NewFunction.returns = <<"int">>
    /\ CallSite.stmt = "return"

(***************************************************************************)
(* C13  When the span holds no return statement: with exactly one return   *)
(* variable the new function's return annotation is that variable's        *)
(* tracked type if it has one; with several return variables it is         *)
(* tuple[T1, ..., Tn] in return-variable order if each of them has a       *)
(* tracked type and absent if one has none; and it is absent whenever the  *)
(* span holds a yield.                                                     *)
(***************************************************************************)
Typed(x) == x \in DOMAIN collector.types

C13_InferredReturnAnnotation ==
    (Extracted /\ ~SpanHas("Return")) =>
        LET rv == CallInfo.return_vars
            returns == NewFunction.returns
        IN  IF SpanHas("Yield") THEN returns = <<>>
            ELSE IF rv = <<>> THEN returns = <<>>
            ELSE IF Len(rv) = 1
            THEN returns = IF Typed(rv[1]) THEN <<collector.types[rv[1]]>> ELSE <<>>
            ELSE IF \A i \in DOMAIN rv : Typed(rv[i])
            THEN /\ Len(returns) = Len(rv) + 1
                 /\ returns[1] = "tuple"
                 /\ \A i \in DOMAIN rv : returns[i + 1] = collector.types[rv[i]]
            ELSE returns = <<>>

\* two return variables of different types: -> tuple[int, str]
C13_Witness ==
    /\ Extracted
    /\ ~SpanHas("Return")
    /\ ~SpanHas("Yield")
    /\ CallInfo.return_vars = <<"x", "y">>
    /\ NewFunction.returns = <<"tuple", "int", "str">>

(***************************************************************************)
(* C14  A synthesized return statement is appended as the last statement   *)
(* of the new function if and only if the span holds no return statement   *)
(* and there are return variables; the names it returns, in order, are the *)
(* assignment targets of the call statement, in order.                     *)
(***************************************************************************)
C14_SynthesizedReturn ==
    Extracted =>
        LET body == NewFunctionBody
            appended == body # <<>> /\ IsSynthesizedReturn(body[Len(body)])
        IN  /\ appended <=> (~SpanHas("Return") /\ CallInfo.return_vars # <<>>)
            /\ \A i \in DOMAIN body : IsSynthesizedReturn(body[i]) => i = Len(body)
            /\ appended =>
                  /\ CallSite.stmt = "assign"
                  /\ body[Len(body)].syn[1].names = CallSite.targets
                  /\ CallSite.targets = CallInfo.return_vars
            /\ Len(body) = Len(TheSplit.body) + (IF appended THEN 1 ELSE 0)

\* `return x, y` in the new function, `x, y = new_func(...)` at the call
C14_Witness ==
    /\ Extracted
    /\ ~SpanHas("Return")
    /\ Len(CallInfo.return_vars) = 2
    /\ CallSite.stmt = "assign"
    /\ CallSite.targets = CallInfo.return_vars
    /\ IsSynthesizedReturn(NewFunctionBody[Len(NewFunctionBody)])
    /\ NewFunctionBody[Len(NewFunctionBody)].syn[1].names = CallInfo.return_vars

(***************************************************************************)
(* C15  Partition of the captured block, as claimed: a statement whose     *)
(* lines overlap or lie within the span goes to the body, a statement      *)
(* wholly before the span to the preamble, a statement wholly after it to  *)
(* the postamble; so a statement that starts before start_line and runs    *)
(* into the span is part of the body.  The code decides by the line a      *)
(* statement starts on, and leaves such a statement in the preamble.       *)
(***************************************************************************)
\* the statements of the block that was split, in order
BlockStatements == BodyOf(tree, TheSplit.block)

C15_Partition_AsClaimed ==
    split # <<>> =>
        \A i \in DOMAIN BlockStatements :
            LET n == BlockStatements[i]
            IN  /\ Overlaps(n) => Contains(TheSplit.body, n)
                /\ tree[n].last < config.start_line => Contains(TheSplit.preamble, n)
                /\ tree[n].first > config.end_line => Contains(TheSplit.postamble, n)

(***************************************************************************)
(* C15 (amended)  A statement whose first line lies in the span goes to    *)
(* the body, a statement that starts before start_line to the preamble and *)
(* a statement that starts after end_line to the postamble; so a statement *)
(* that starts before start_line and runs into the span is part of the     *)
(* preamble.  The three runs keep the block's order and together are the   *)
(* block.                                                                  *)
(***************************************************************************)
C15_PartitionByFirstLine ==
    split # <<>> =>
        /\ TheSplit.preamble \o TheSplit.body \o TheSplit.postamble = BlockStatements
        /\ \A i \in DOMAIN TheSplit.preamble :
              tree[TheSplit.preamble[i]].first < config.start_line
        /\ \A i \in DOMAIN TheSplit.body :
              /\ config.start_line <= tree[TheSplit.body[i]].first
              /\ tree[TheSplit.body[i]].first <= config.end_line
        /\ \A i \in DOMAIN TheSplit.postamble :
              tree[TheSplit.postamble[i]].first > config.end_line

\* an extraction whose preamble ends with a statement that runs into the span
C15_Witness ==
    /\ Extracted
    /\ TheSplit.preamble # <<>>
    /\ TheSplit.body # <<>>
    /\ Overlaps(TheSplit.preamble[Len(TheSplit.preamble)])

(***************************************************************************)
(* C16  On a successful extraction the leading blank and comment lines of  *)
(* the first body statement are moved onto the call statement: the call    *)
(* statement, where it stands in the rewritten block, carries exactly      *)
(* those lines, and the first statement of the new function carries none.  *)
(***************************************************************************)
\* the block as leave_IndentedBlock returned it
RewrittenBlock == result[TheSplit.block][1]

\* the statement that stands where the span was
CallStatement == RewrittenBlock.body[Len(TheSplit.preamble) + 1]

C16_LeadingLinesMove ==
    Extracted =>
        /\ CallStatement.syn # <<>>
        /\ CallStatement.syn[1].kind = "CallStmt"
        /\ CallStatement.leading = tree[TheSplit.body[1]].leading
        /\ NewFunctionBody[1].id = TheSplit.body[1]
        /\ NewFunctionBody[1].leading = <<>>

\* a comment led the first statement of the body
C16_Witness ==
    /\ Extracted
    /\ tree[TheSplit.body[1]].leading = <<"# note">>
    /\ CallStatement.leading = <<"# note">>
    /\ NewFunctionBody[1].leading = <<>>
    /\ TheSplit.preamble # <<>>

(***************************************************************************)
(* The rewritten module.                                                   *)
(***************************************************************************)
\* a synthesized function definition
IsNewFunction(s) == s.syn # <<>> /\ s.syn[1].kind = "FunctionDef"

\* the number of synthesized function definitions in a rewritten tree
RECURSIVE CountNew(_)
RECURSIVE CountNewAll(_)
CountNew(node) == (IF IsNewFunction(node) THEN 1 ELSE 0) + CountNewAll(node.body)
CountNewAll(nodes) ==
    IF nodes = <<>> THEN 0 ELSE CountNew(Head(nodes)) + CountNewAll(Tail(nodes))

\* somewhere in the rewritten tree, the body of input node p holds a
\* synthesized function followed at once by input function f, led by lead
RECURSIVE SplicedBefore(_, _, _, _)
SplicedBefore(node, p, f, lead) ==
    \/ /\ node.id = p
       /\ \E i \in 1..(Len(node.body) - 1) :
             /\ IsNewFunction(node.body[i])
             /\ node.body[i + 1].id = f
             /\ node.body[i + 1].leading = lead
    \/ \E i \in DOMAIN node.body : SplicedBefore(node.body[i], p, f, lead)

(***************************************************************************)
(* C17  Insertion point: on success exactly one new function definition is *)
(* in the rewritten module, as the sibling just before the function that   *)
(* encloses the rewritten block, in the body that function stands in (a    *)
(* module, a class body, or another function's body); a function that had  *)
(* no leading lines is led by one blank line.                              *)
(***************************************************************************)
C17_InsertionPoint ==
    (Done /\ state.added_new_function) =>
        LET f == ScopeOf(TheSplit.block)
        IN  /\ f # 0
            /\ tree[f].kind = "FunctionDef"
            /\ CountNew(output[1]) = 1
            /\ SplicedBefore(output[1], tree[f].parent, f,
                             IF tree[f].leading = <<>> THEN <<"">> ELSE tree[f].leading)

\* the new function stands before a nested function that had no leading
\* lines, inside the enclosing method's body
C17_Witness ==
    /\ Done
    /\ state.added_new_function
    /\ ScopeOf(TheSplit.block) = 6
    /\ tree[6].leading = <<>>
    /\ SplicedBefore(output[1], 5, 6, <<"">>)
    /\ CountNew(output[1]) = 1

(***************************************************************************)
(* C18  Formatting outside the edited region survives: on a successful     *)
(* extraction every statement outside the rewritten block is unaltered     *)
(* (but for the blank separator line of C17), and the comment and blank    *)
(* lines that lead the refactored function stay on it and are not copied   *)
(* onto the new function.  The code does copy them: leave_FunctionDef      *)
(* gives the new function the leading lines of the refactored function,    *)
(* so a comment that leads the function appears twice.                     *)
(***************************************************************************)
\* the synthesized functions among the statements of a rewritten tree
RECURSIVE NewFunctionsIn(_)
RECURSIVE NewFunctionsInAll(_)
NewFunctionsIn(node) ==
    (IF IsNewFunction(node) THEN {node} ELSE {}) \cup NewFunctionsInAll(node.body)
NewFunctionsInAll(nodes) ==
    IF nodes = <<>> THEN {}
    ELSE NewFunctionsIn(Head(nodes)) \cup NewFunctionsInAll(Tail(nodes))

\* rewritten node out is input node n, unaltered outside the rewritten
\* block: same statements in the same order with the same leading lines,
\* apart from inserted functions and the separator line of function f
RECURSIVE Unaltered(_, _, _)
Unaltered(out, n, f) ==
    /\ out.id = n
    /\ \/ out.leading = tree[n].leading
       \/ n = f /\ tree[n].leading = <<>> /\ out.leading = <<"">>
    /\ \/ n = TheSplit.block
       \/ LET kept == SelectSeq(out.body, LAMBDA s : ~IsNewFunction(s))
              b == BodyOf(tree, n)
          IN  /\ Len(kept) = Len(b)
              /\ \A i \in DOMAIN b : Unaltered(kept[i], b[i], f)

RECURSIVE ScopeChain(_)
ScopeChain(n) ==
    IF ScopeOf(n) = 0 THEN <<>> ELSE Append(ScopeChain(ScopeOf(n)), ScopeOf(n))

C19_ScopeStackSymmetry ==
    IF todo = <<>> THEN state.current_scope = <<>>
    ELSE LET n == todo[1].node
             open == IF todo[1].ev = "leave" /\ tree[n].kind \in {"ClassDef", "FunctionDef"}
                     THEN Append(ScopeChain(n), n) ELSE ScopeChain(n)
         IN  /\ state.current_scope = open
             /\ (todo[1].ev = "leave" /\ tree[n].kind = "IndentedBlock"
                    /\ ScopeOf(n) # 0) =>
                   /\ state.current_scope # <<>>
                   /\ state.current_scope[Len(state.current_scope)] = ScopeOf(n)

\* about to leave the captured block of a nested function, after two
\* pushes for the class and the method and one for the nested function
C19_Witness ==
    /\ At("leave", "IndentedBlock")
    /\ Here = state.lowest_indented_block
    /\ tree[ScopeOf(Here)].kind = "FunctionDef"
    /\ ScopeOf(ScopeOf(Here)) # 0
    /\ tree[ScopeOf(ScopeOf(Here))].kind = "FunctionDef"
    /\ Len(state.current_scope) = 3
    /\ state.current_scope[3] = ScopeOf(Here)

(***************************************************************************)
(* C20  Span location: the only block ever split is the deepest indented   *)
(* block whose lines start at or before start_line and end at or after     *)
(* end_line; a shallower qualifying block is never split, neither before   *)
(* the deepest one nor in its place when the deepest one gives an empty    *)
(* body; every other block is returned as the traversal found it.          *)
(***************************************************************************)
Qualifies(b) ==
    /\ tree[b].kind = "IndentedBlock"
    /\ tree[b].first <= config.start_line
    /\ tree[b].last >= config.end_line

\* b qualifies and lies inside every other block that does
Deepest(b) == Qualifies(b) /\ \A c \in DOMAIN tree : Qualifies(c) => IsUnder(b, c)

C20_SpanLocation ==
    /\ split # <<>> => Deepest(TheSplit.block)
    /\ \A b \in DOMAIN result :
          tree[b].kind = "IndentedBlock" =>
              /\ Deepest(b) => (split # <<>> /\ TheSplit.block = b)
              /\ (~Deepest(b) \/ TheSplit.body = <<>>) =>
                    result[b] = <<UpdatedNode(tree, result, b)>>
    /\ state.lowest_indented_block # 0 =>
          /\ Qualifies(state.lowest_indented_block)
          /\ split = <<>>

\* the deepest of two qualifying blocks gave an empty body: nothing was
\* rewritten, the shallower block included
C20_Witness ==
    /\ Done
    /\ split # <<>>
    /\ TheSplit.body = <<>>
    /\ \E c \in DOMAIN tree : Qualifies(c) /\ c # TheSplit.block
    /\ \A b \in DOMAIN tree :
          tree[b].kind = "IndentedBlock" => result[b] = <<Original(tree, b)>>

(***************************************************************************)
(* The overlap tests (extract_method.py is_node_in_range, base.py          *)
(* code_ranges_interect) as pure functions of two CodeRanges.              *)
(***************************************************************************)
\* lines of a CodeRange are 1..MaxRangeLine
MaxRangeLine == 3
\* columns of a CodeRange are 0..MaxColumn
MaxColumn == 2

CodePosition(line, column) == [line |-> line, column |-> column]

\* a CodeRange never ends before it starts
CodeRange ==
    {[start |-> CodePosition(l1, c1), end |-> CodePosition(l2, c2)] :
        <<l1, c1, l2, c2>> \in
            {q \in (1..MaxRangeLine) \X (0..MaxColumn) \X (1..MaxRangeLine) \X (0..MaxColumn) :
                q[1] < q[3] \/ (q[1] = q[3] /\ q[2] <= q[4])}}

Max(a, b) == IF a >= b THEN a ELSE b
Min(a, b) == IF a <= b THEN a ELSE b

\* variant: only the lines are compared
code_ranges_interect_LinesOnly(first, second) ==
    ~(Max(first.start.line, second.start.line) > Min(first.end.line, second.end.line))

code_ranges_interect(first, second) ==
    LET overlap_start_line == Max(first.start.line, second.start.line)
        overlap_end_line == Min(first.end.line, second.end.line)
    IN  IF overlap_start_line > overlap_end_line THEN FALSE
        ELSE IF /\ first.start.line = first.end.line
                /\ second.start.line = second.end.line
                /\ Max(first.start.column, second.start.column)
                       > Min(first.end.column, second.end.column)
        THEN FALSE
        ELSE TRUE

\* the other specifications leave the extractor as it is constructed
ExtractorIdle ==
    /\ tree = <<>>
    /\ config = ExtractMethodConfig(1, 1)
    /\ todo = <<>>
    /\ state = ParserState
    /\ collector = VariableCollector
    /\ result = <<>>
    /\ split = <<>>
    /\ output = <<>>

ExtractorVars == <<tree, config, todo, state, collector, result, split, output>>

OverlapInit ==
    /\ ExtractorIdle
    /\ walk = <<>>
    /\ server = <<>>
    /\ texts = <<>>
    /\ \E first \in CodeRange, second \in CodeRange :
          ranges = [first |-> first, second |-> second, answers |-> <<>>]

\* code_ranges_interect on the two ranges, in both orders
call_code_ranges_interect ==
    /\ ranges # <<>>
    /\ "intersect" \notin DOMAIN ranges.answers
    /\ ranges' = [ranges EXCEPT !.answers =
                     ("intersect" :> code_ranges_interect(ranges.first, ranges.second))
                     @@ ("swapped" :> code_ranges_interect(ranges.second, ranges.first))
                     @@ @]
    /\ UNCHANGED <<ExtractorVars, walk, server, texts>>

\* is_node_in_range on a node that spans the first range, for a span of the
\* lines of the second
call_is_node_in_range ==
    /\ ranges # <<>>
    /\ "in_range" \notin DOMAIN ranges.answers
    /\ ranges' = [ranges EXCEPT !.answers =
                     ("in_range" :>
                         is_node_in_range(
                             (1 :> Node("Stmt", 0, <<>>, ranges.first.start.line,
                                        ranges.first.end.line)),
                             ExtractMethodConfig(ranges.second.start.line,
                                                 ranges.second.end.line),
                             1))
                     @@ @]
    /\ UNCHANGED <<ExtractorVars, walk, server, texts>>

OverlapNext ==
    \/ call_code_ranges_interect
    \/ call_is_node_in_range

OverlapSpec == OverlapInit /\ [][OverlapNext]_vars

(***************************************************************************)
(* C21  Overlap tests: is_node_in_range is true exactly when the closed    *)
(* line interval of the node and the closed interval [start_line,          *)
(* end_line] share a line; code_ranges_interect is false exactly when the  *)
(* line intervals are disjoint, or both ranges are single-line and their   *)
(* closed column intervals are disjoint, and it is symmetric.              *)
(***************************************************************************)
ShareLine(a, b) ==
    \E l \in 1..MaxRangeLine :
        /\ a.start.line <= l /\ l <= a.end.line
        /\ b.start.line <= l /\ l <= b.end.line

ShareColumn(a, b) ==
    \E c \in 0..MaxColumn :
        /\ a.start.column <= c /\ c <= a.end.column
        /\ b.start.column <= c /\ c <= b.end.column

SingleLine(a) == a.start.line = a.end.line

C21_OverlapTests ==
    ranges # <<>> =>
        LET a == ranges.first
            b == ranges.second
        IN  /\ "in_range" \in DOMAIN ranges.answers =>
                  (ranges.answers["in_range"] <=> ShareLine(a, b))
            /\ "intersect" \in DOMAIN ranges.answers =>
                  /\ ~ranges.answers["intersect"] <=>
                        \/ ~ShareLine(a, b)
                        \/ SingleLine(a) /\ SingleLine(b) /\ ~ShareColumn(a, b)
                  /\ ranges.answers["intersect"] = ranges.answers["swapped"]

\* two ranges on one line whose columns do not meet: they share the line,
\* is_node_in_range says yes and code_ranges_interect says no
C21_Witness ==
    /\ ranges # <<>>
    /\ DOMAIN ranges.answers = {"in_range", "intersect", "swapped"}
    /\ SingleLine(ranges.first)
    /\ SingleLine(ranges.second)
    /\ ranges.answers["in_range"]
    /\ ~ranges.answers["intersect"]

(***************************************************************************)
(* C22  A receiver is inferred only when the innermost scope that encloses *)
(* the rewritten block is a function whose own enclosing scope is a class. *)
(* For a function nested in a method, or a function at module level, the   *)
(* call is the bare <new_name>(...), the new function has no decorator,    *)
(* and its parameters are the call's arguments.                            *)
(***************************************************************************)
C22_ReceiverOnlyInMethods ==
    split # <<>> =>
        LET f == ScopeOf(TheSplit.block)
        IN  /\ CallInfo.receiver_name # "" => InMethod(f)
            /\ CallSite.value.receiver = CallInfo.receiver_name
            /\ ~InMethod(f) =>
                  /\ CallSite.value.receiver = ""
                  /\ CallSite.value.func = config.new_func_name
                  /\ CallInfo.decorators = <<>>
                  /\ CallInfo.declaration_params = CallInfo.callsite_params
                  /\ CallSite.value.args = CallInfo.callsite_params
                  /\ state.new_function_def # <<>> =>
                        /\ NewFunction.decorators = <<>>
                        /\ ParamNamesOf(NewFunction) = CallSite.value.args

\* an extraction from a function nested in a staticmethod whose first
\* parameter is read in the span: it is an ordinary argument
C22_Witness ==
    /\ Extracted
    /\ ScopeOf(TheSplit.block) = 6
    /\ tree[6].kind = "FunctionDef"
    /\ ScopeOf(6) = 4
    /\ ScopeOf(4) # 0
    /\ tree[ScopeOf(4)].kind = "ClassDef"
    /\ Decorated(4, "staticmethod")
    /\ CallSite.value.receiver = ""
    /\ NewFunction.decorators = <<>>
    /\ CallSite.value.args # <<>>

(***************************************************************************)
(* C23  Progress from Synthesized to Spliced: when the captured block lies *)
(* in a function body and its body partition is not empty, so that a new   *)
(* function was synthesized, the traversal ends with added_new_function    *)
(* true and the new function in the output, also when the selected         *)
(* statements hold a nested function definition.  The code does not keep   *)
(* this: visit_FunctionDef makes the nested definition the target, and     *)
(* leave_FunctionDef of the nested definition clears the target before the *)
(* enclosing function is left, so the new function is never spliced.       *)
(***************************************************************************)
\* a new function was synthesized from a block in a function body
Synthesized ==
    /\ split # <<>>
    /\ TheSplit.body # <<>>
    /\ ScopeOf(TheSplit.block) # 0
    /\ tree[ScopeOf(TheSplit.block)].kind = "FunctionDef"

C23_SynthesizedIsSpliced ==
    (Done /\ Synthesized) =>
        /\ state.added_new_function
        /\ CountNew(output[1]) = 1

\* the selected statements hold a nested function definition: a new
\* function was synthesized, and the module comes back unchanged
C23_Witness ==
    /\ Done
    /\ Synthesized
    /\ \E i \in DOMAIN TheSplit.body : tree[TheSplit.body[i]].kind = "FunctionDef"
    /\ state.new_function_def # <<>>
    /\ ~state.added_new_function
    /\ output[1] = Original(tree, 1)

(***************************************************************************)
(* C27  Receiver re-insertion, as claimed: when a receiver name is         *)
(* inferred for an instance or class method, it is in the declaration      *)
(* parameters exactly once, in first position, never among the callsite    *)
(* arguments and never among the return variables.  The code leaves the    *)
(* return variables alone: a receiver that is rebound in the span and read *)
(* after it is returned, as any other name.                                *)
(***************************************************************************)
\* a receiver was inferred from the first parameter of a method
ReceiverInferred ==
    /\ split # <<>>
    /\ InMethod(ScopeOf(TheSplit.block))
    /\ ~Decorated(ScopeOf(TheSplit.block), "staticmethod")
    /\ CallInfo.receiver_name # ""

Occurrences(s, x) == Cardinality({i \in DOMAIN s : s[i] = x})

C27_Receiver_AsClaimed ==
    ReceiverInferred =>
        /\ CallInfo.declaration_params[1] = CallInfo.receiver_name
        /\ Occurrences(CallInfo.declaration_params, CallInfo.receiver_name) = 1
        /\ ~Contains(CallInfo.callsite_params, CallInfo.receiver_name)
        /\ ~Contains(CallInfo.return_vars, CallInfo.receiver_name)

(***************************************************************************)
(* C27 (amended)  When a receiver name is inferred for an instance or      *)
(* class method, it is in the declaration parameters exactly once, in      *)
(* first position, and never among the callsite arguments; it is among the *)
(* return variables exactly when it is assigned inside the span and read   *)
(* after it.                                                               *)
(***************************************************************************)
C27_ReceiverReinsertion ==
    ReceiverInferred =>
        /\ CallInfo.declaration_params[1] = CallInfo.receiver_name
        /\ Occurrences(CallInfo.declaration_params, CallInfo.receiver_name) = 1
        /\ ~Contains(CallInfo.callsite_params, CallInfo.receiver_name)
        /\ Contains(CallInfo.return_vars, CallInfo.receiver_name)
              <=> (AssignedDuring(CallInfo.receiver_name)
                   /\ UsedAfter(CallInfo.receiver_name))

\* the receiver is rebound in the span and read after it: it leads the
\* declaration, is no argument, and is returned
C27_Witness ==
    /\ Extracted
    /\ ReceiverInferred
    /\ AssignedDuring(CallInfo.receiver_name)
    /\ UsedAfter(CallInfo.receiver_name)
    /\ CallInfo.declaration_params[1] = CallInfo.receiver_name
    /\ Contains(CallInfo.return_vars, CallInfo.receiver_name)
    /\ CallSite.stmt = "assign"
    /\ Contains(CallSite.targets, CallInfo.receiver_name)

(***************************************************************************)
(* C28  Statement conservation in split_original_code: preamble, body and  *)
(* postamble are contiguous runs whose concatenation is the statement list *)
(* of the block in its order; the rewritten block is preamble, one call    *)
(* statement, postamble, and the new function's body is body plus at most  *)
(* one synthesized return: no statement is lost, duplicated or reordered.  *)
(***************************************************************************)
\* the statements of a rewritten tree as the input statements they are
\* (0 for a synthesized statement)
IdsOf(nodes) == [i \in DOMAIN nodes |-> nodes[i].id]

\* the rewritten statements are the input statements ns, each unaltered but
\* for its leading lines
SameStatements(nodes, ns) ==
    /\ Len(nodes) = Len(ns)
    /\ \A i \in DOMAIN ns : SameStatement(nodes[i], ns[i])

C28_StatementConservation ==
    (split # <<>> /\ TheSplit.body # <<>>) =>
        LET pre == TheSplit.preamble
            mid == TheSplit.body
            post == TheSplit.postamble
            block == RewrittenBlock.body
            own == SelectSeq(NewFunctionBody, LAMBDA s : ~IsSynthesizedReturn(s))
        IN  /\ pre \o mid \o post = BlockStatements
            /\ NoDuplicates(BlockStatements)
            /\ Len(block) = Len(pre) + 1 + Len(post)
            /\ SameStatements(SubSeq(block, 1, Len(pre)), pre)
            /\ block[Len(pre) + 1] = TheSplit.call
            /\ block[Len(pre) + 1].syn[1].kind = "CallStmt"
            /\ SameStatements(SubSeq(block, Len(pre) + 2, Len(block)), post)
            /\ SameStatements(own, mid)
            /\ Len(NewFunctionBody) - Len(own) <= 1

\* all three runs are non-empty and a return is synthesized
C28_Witness ==
    /\ Extracted
    /\ TheSplit.preamble # <<>>
    /\ Len(TheSplit.body) >= 2
    /\ TheSplit.postamble # <<>>
    /\ Len(NewFunctionBody) = Len(TheSplit.body) + 1
    /\ IdsOf(RewrittenBlock.body) = TheSplit.preamble \o <<0>> \o TheSplit.postamble

(***************************************************************************)
(* VariableCollector's own walk (variable_collector.py).  The collector is *)
(* a visitor: libcst calls its visit_X and leave_X handlers over the       *)
(* syntax tree of the target function.  Here a syntax tree is a nested     *)
(* record; every Name carries its position and the part it plays in the    *)
(* statement (role), which the collector does not look at.                 *)
(***************************************************************************)
\* the module walked holds 1..MaxStatements statements
MaxStatements == 2

Cst(kind, children) ==
    [kind |-> kind, value |-> "", children |-> children,
     line |-> 0, col |-> 0, role |-> "", ann |-> ""]

Name(value, line, col, role) ==
    [kind |-> "Name", value |-> value, children |-> <<>>,
     line |-> line, col |-> col, role |-> role, ann |-> ""]

Attribute(value, attr) == Cst("Attribute", <<value, attr>>)
Subscript(value, index) == Cst("Subscript", <<value, index>>)
Call(func, args) == Cst("Call", <<func>> \o args)
AssignStmt(target, value) ==
    Cst("Assign", <<Cst("AssignTarget", <<target>>), value>>)

\* the statements walked, at line l
Statement(form, l) ==
    CASE form = "chain" ->          \* x.a.b.c
           Cst("Expr", <<Attribute(Attribute(Attribute(Name("x", l, 0, "root"),
                                                       Name("a", l, 2, "attr")),
                                             Name("b", l, 4, "attr")),
                                   Name("c", l, 6, "attr"))>>)
      [] form = "chain_set" ->      \* x.a.b = v
           AssignStmt(Attribute(Attribute(Name("x", l, 0, "root"),
                                          Name("a", l, 2, "attr")),
                                Name("b", l, 4, "attr")),
                      Name("v", l, 8, "read"))
      [] form = "call_chain" ->     \* f(y).a
           Cst("Expr", <<Attribute(Call(Name("f", l, 0, "chain_read"),
                                        <<Name("y", l, 2, "chain_read")>>),
                                   Name("a", l, 5, "attr"))>>)
      [] form = "method_chain" ->   \* x.m(y).n
           Cst("Expr", <<Attribute(Call(Attribute(Name("x", l, 0, "root"),
                                                  Name("m", l, 2, "attr")),
                                        <<Name("y", l, 4, "chain_read")>>),
                                   Name("n", l, 7, "attr"))>>)
      [] form = "call_arg" ->       \* x.m(y)
           Cst("Expr", <<Call(Attribute(Name("x", l, 0, "root"),
                                        Name("m", l, 2, "attr")),
                              <<Name("y", l, 4, "read")>>)>>)
      [] form = "sub_set" ->        \* x[i] = v
           AssignStmt(Subscript(Name("x", l, 0, "subscripted"),
                                Name("i", l, 2, "index")),
                      Name("v", l, 7, "read"))
      [] form = "sub_chain" ->      \* x[i].a
           Cst("Expr", <<Attribute(Subscript(Name("x", l, 0, "base"),
                                             Name("i", l, 2, "index")),
                                   Name("a", l, 5, "attr"))>>)
      [] form = "sub_read" ->       \* v = x[i]
           AssignStmt(Name("v", l, 0, "target"),
                      Subscript(Name("x", l, 4, "base"), Name("i", l, 6, "index")))
      [] form = "aug" ->            \* x += y
           Cst("AugAssign", <<Name("x", l, 0, "bound"), Name("y", l, 5, "read")>>)
      [] form = "for" ->            \* for a in xs: a
           Cst("For", <<Name("a", l, 4, "bound"), Name("xs", l, 9, "read"),
                        Cst("Expr", <<Name("a", l, 13, "read")>>)>>)
      [] form = "for_tuple" ->      \* for a, b in xs: a
           Cst("For", <<Cst("Tuple", <<Name("a", l, 4, "bound"),
                                       Name("b", l, 7, "bound")>>),
                        Name("xs", l, 12, "read"),
                        Cst("Expr", <<Name("a", l, 16, "read")>>)>>)
      [] form = "walrus" ->         \* (n := y)
           Cst("Expr", <<Cst("NamedExpr", <<Name("n", l, 1, "bound"),
                                            Name("y", l, 6, "read")>>)>>)
      [] form = "with" ->           \* with f(x) as h: h
           Cst("With", <<Cst("WithItem",
                             <<Call(Name("f", l, 5, "read"), <<Name("x", l, 7, "read")>>),
                               Cst("AsName", <<Name("h", l, 13, "bound")>>)>>),
                         Cst("Expr", <<Name("h", l, 16, "read")>>)>>)
      [] form = "def" ->            \* def g(p: int) -> int: return p
           [Cst("FunctionDef",
                <<Name("g", l, 4, "function"),
                  [Cst("Param", <<Name("p", l, 6, "bound"),
                                  Cst("Annotation", <<Name("int", l, 9, "annotation")>>)>>)
                      EXCEPT !.ann = "int"],
                  Cst("Annotation", <<Name("int", l, 17, "annotation")>>),
                  Cst("Return", <<Name("p", l, 29, "read")>>)>>)
               EXCEPT !.ann = "int"]
      [] form = "ann" ->            \* y: str = x
           [Cst("AnnAssign", <<Name("y", l, 0, "target"),
                               Cst("Annotation", <<Name("str", l, 3, "annotation")>>),
                               Name("x", l, 9, "read")>>)
               EXCEPT !.ann = "str"]

StatementForms ==
    {"chain", "chain_set", "call_chain", "method_chain", "call_arg", "sub_set",
     "sub_chain", "sub_read", "aug", "for", "for_tuple", "walrus", "with", "def",
     "ann"}

\* the handlers VariableCollector defines
CollectorVisitKinds ==
    {"AnnAssign", "AugAssign", "NamedExpr", "For", "Param", "Name", "With",
     "FunctionDef", "Return", "AssignTarget", "Subscript", "Attribute"}
CollectorLeaveKinds == {"FunctionDef", "AssignTarget", "Subscript", "Attribute"}

\* node.visit(collector): depth first, children in the order of the source
RECURSIVE CollectorWalk(_)
RECURSIVE CollectorWalkAll(_)
CollectorWalk(node) ==
    (IF node.kind \in CollectorVisitKinds
     THEN <<[ev |-> "visit", node |-> node]>> ELSE <<>>)
    \o CollectorWalkAll(node.children)
    \o (IF node.kind \in CollectorLeaveKinds
        THEN <<[ev |-> "leave", node |-> node]>> ELSE <<>>)
CollectorWalkAll(nodes) ==
    IF nodes = <<>> THEN <<>>
    ELSE CollectorWalk(Head(nodes)) \o CollectorWalkAll(Tail(nodes))

VariableCollectorState ==
    [function_stack |-> <<>>, count_name_as_assign |-> FALSE,
     subscript_depth |-> 0, attribute_depth |-> 0,
     usage_tracked_for_attribute |-> FALSE]

\* _track_node on a syntax node: only a Name is tracked
TrackNode(c, node, is_assignment, annotation) ==
    IF node.kind # "Name" THEN c
    ELSE _track_node(c, Fact(node.value, node.line, node.col, is_assignment, annotation))

CollectorInit ==
    /\ tree = <<>>
    /\ config = ExtractMethodConfig(1, 1)
    /\ todo = <<>>
    /\ state = ParserState
    /\ result = <<>>
    /\ split = <<>>
    /\ output = <<>>
    /\ ranges = <<>>
    /\ server = <<>>
    /\ texts = <<>>
    /\ collector = VariableCollector
    /\ \E n \in 1..MaxStatements : \E forms \in [1..n -> StatementForms] :
          LET module == Cst("Module", [l \in 1..n |-> Statement(forms[l], l)])
          IN  walk = [module |-> module, todo |-> CollectorWalk(module),
                      st |-> VariableCollectorState]

CollectorAt(ev, kinds) ==
    /\ walk # <<>>
    /\ walk.todo # <<>>
    /\ walk.todo[1].ev = ev
    /\ walk.todo[1].node.kind \in kinds

CollectorHere == walk.todo[1].node

\* the handler is done: on to the next event
CollectorStep(c, st) ==
    /\ collector' = c
    /\ walk' = [walk EXCEPT !.todo = Tail(@), !.st = st]
    /\ UNCHANGED <<tree, config, todo, state, result, split, output, ranges, server,
                 texts>>

VariableCollector_visit_AnnAssign ==
    /\ CollectorAt("visit", {"AnnAssign"})
    /\ CollectorStep(TrackNode(collector, CollectorHere.children[1], TRUE,
                               CollectorHere.ann),
                     walk.st)

VariableCollector_visit_node_with_target ==
    /\ CollectorAt("visit", {"AugAssign", "NamedExpr", "For"})
    /\ CollectorStep(TrackNode(collector, CollectorHere.children[1], TRUE, ""), walk.st)

VariableCollector_visit_Param ==
    /\ CollectorAt("visit", {"Param"})
    /\ CollectorStep(TrackNode(collector, CollectorHere.children[1], TRUE,
                               CollectorHere.ann),
                     walk.st)

VariableCollector_visit_Name ==
    /\ CollectorAt("visit", {"Name"})
    /\ IF walk.st.attribute_depth > 0
       THEN CollectorStep(collector, walk.st)
       ELSE CollectorStep(TrackNode(collector, CollectorHere,
                                    walk.st.count_name_as_assign
                                        /\ walk.st.subscript_depth = 0, ""),
                          walk.st)

\* the names of the `as` clauses of the items of a with statement
RECURSIVE TrackAsNames(_, _)
TrackAsNames(c, items) ==
    IF items = <<>> THEN c
    ELSE LET item == Head(items)
             asname == SelectSeq(item.children, LAMBDA n : n.kind = "AsName")
         IN  TrackAsNames(IF item.kind = "WithItem" /\ asname # <<>>
                          THEN TrackNode(c, asname[1].children[1], TRUE, "")
                          ELSE c,
                          Tail(items))

VariableCollector_visit_With ==
    /\ CollectorAt("visit", {"With"})
    /\ CollectorStep(TrackAsNames(collector, CollectorHere.children), walk.st)

VariableCollector_visit_FunctionDef ==
    /\ CollectorAt("visit", {"FunctionDef"})
    /\ CollectorStep(collector,
                     [walk.st EXCEPT !.function_stack = Append(@, CollectorHere.ann)])

VariableCollector_leave_FunctionDef ==
    /\ CollectorAt("leave", {"FunctionDef"})
    /\ CollectorStep(collector,
                     [walk.st EXCEPT !.function_stack = SubSeq(@, 1, Len(@) - 1)])

VariableCollector_visit_Return ==
    /\ CollectorAt("visit", {"Return"})
    /\ LET stack == walk.st.function_stack
           value == CollectorHere.children[1]
       IN  IF stack = <<>> \/ value.kind # "Name" \/ stack[Len(stack)] = ""
           THEN CollectorStep(collector, walk.st)
           ELSE CollectorStep([collector EXCEPT
                                  !.types = (value.value :> stack[Len(stack)]) @@ @],
                              walk.st)

VariableCollector_visit_AssignTarget ==
    /\ CollectorAt("visit", {"AssignTarget"})
    /\ CollectorStep(collector, [walk.st EXCEPT !.count_name_as_assign = TRUE])

VariableCollector_leave_AssignTarget ==
    /\ CollectorAt("leave", {"AssignTarget"})
    /\ CollectorStep(collector, [walk.st EXCEPT !.count_name_as_assign = FALSE])

VariableCollector_visit_Subscript ==
    /\ CollectorAt("visit", {"Subscript"})
    /\ CollectorStep(collector, [walk.st EXCEPT !.subscript_depth = @ + 1])

VariableCollector_leave_Subscript ==
    /\ CollectorAt("leave", {"Subscript"})
    /\ CollectorStep(collector, [walk.st EXCEPT !.subscript_depth = @ - 1])

VariableCollector_visit_Attribute ==
    /\ CollectorAt("visit", {"Attribute"})
    /\ CollectorStep(collector, [walk.st EXCEPT !.attribute_depth = @ + 1])

VariableCollector_leave_Attribute ==
    /\ CollectorAt("leave", {"Attribute"})
    /\ LET depth == walk.st.attribute_depth - 1
           tracked == walk.st.usage_tracked_for_attribute
           c == IF tracked THEN collector
                ELSE TrackNode(collector, CollectorHere.children[1], FALSE, "")
       IN  CollectorStep(c, [walk.st EXCEPT
                                !.attribute_depth = depth,
                                !.usage_tracked_for_attribute = depth # 0])

CollectorNext ==
    \/ VariableCollector_visit_AnnAssign
    \/ VariableCollector_visit_node_with_target
    \/ VariableCollector_visit_Param
    \/ VariableCollector_visit_Name
    \/ VariableCollector_visit_With
    \/ VariableCollector_visit_FunctionDef
    \/ VariableCollector_leave_FunctionDef
    \/ VariableCollector_visit_Return
    \/ VariableCollector_visit_AssignTarget
    \/ VariableCollector_leave_AssignTarget
    \/ VariableCollector_visit_Subscript
    \/ VariableCollector_leave_Subscript
    \/ VariableCollector_visit_Attribute
    \/ VariableCollector_leave_Attribute

CollectorSpec == CollectorInit /\ [][CollectorNext]_vars

(***************************************************************************)
(* Vocabulary of the collector's properties.                               *)
(***************************************************************************)
\* the walk is over
Collected == walk # <<>> /\ walk.todo = <<>>

\* the Name nodes of a syntax tree
RECURSIVE NamesIn(_)
RECURSIVE NamesInAll(_)
NamesIn(node) ==
    (IF node.kind = "Name" THEN {node} ELSE {}) \cup NamesInAll(node.children)
NamesInAll(nodes) ==
    IF nodes = <<>> THEN {} ELSE NamesIn(Head(nodes)) \cup NamesInAll(Tail(nodes))

\* the Name nodes of the module that play the given part
Playing(role) == {n \in NamesIn(walk.module) : n.role = role}

UsageAt(n) == <<n.line, n.col>> \in Recorded(collector.usages, n.value)
AssignmentAt(n) == <<n.line, n.col>> \in Recorded(collector.assignments, n.value)

\* C24: when the walk is over, the root name of every attribute chain is
\* recorded as a usage and not as an assignment, the attribute names of the
\* chain are not recorded at all, and every other name read inside the chain
\* (the callee and the arguments of f(y).a, the argument of x.m(y).n) is
\* recorded as a usage.
C24_AttributeChains ==
    Collected =>
        /\ \A n \in Playing("root") : UsageAt(n) /\ ~AssignmentAt(n)
        /\ \A n \in Playing("attr") : ~UsageAt(n) /\ ~AssignmentAt(n)
        /\ \A n \in Playing("chain_read") : UsageAt(n)

\* a chain with a call inside it has been walked, and its root was recorded
C24_Witness ==
    /\ Collected
    /\ Playing("chain_read") # {}
    /\ \E n \in Playing("root") : UsageAt(n)

\* C25: when the walk is over, the subscripted root and the index name of
\* x[i] = v are usages and not assignments, and so is every name of an index
\* expression, wherever the subscript stands (x[i].a included).
C25_Subscripts ==
    Collected =>
        \A n \in Playing("subscripted") \cup Playing("index") :
            UsageAt(n) /\ ~AssignmentAt(n)

\* x[i] = v has been walked: x and i are usages
C25_Witness ==
    /\ Collected
    /\ \E n \in Playing("subscripted") : UsageAt(n) /\ ~AssignmentAt(n)
    /\ \E n \in Playing("index") : UsageAt(n) /\ ~AssignmentAt(n)

\* C26: when the walk is over, every name bound by an augmented assignment,
\* a loop header (each name of a tuple target included), a walrus
\* expression, a formal parameter or a `with ... as` clause is recorded as
\* an assignment at its position.
C26_BindingForms ==
    Collected => \A n \in Playing("bound") : AssignmentAt(n)

\* a binding form has been walked and its name is an assignment
C26_Witness ==
    /\ Collected
    /\ \E n \in Playing("bound") : AssignmentAt(n)
    /\ \E n \in Playing("bound") : n.value = "b"

(***************************************************************************)
(* The language server (server.py): initialize builds the list of          *)
(* transformations, code_action_handler tries each of them on the document *)
(* and the selection of the request.  What a transformation finds in the   *)
(* document is an input: whether its is_valid holds and what its refactor  *)
(* computes.                                                               *)
(***************************************************************************)
\* a transformation: its title and the parameters its refactor takes after self
ExtractMethod == [name |-> "Extract Method", refactor |-> <<"module", "start", "end">>]
ImportSymbol == [name |-> "Import Symbol", refactor |-> <<"module", "code_range">>]
ImportAll == [name |-> "Import All Missing", refactor |-> <<"module", "code_range">>]

\* A refactor hands back the rewritten source ("changed"), the source as it
\* was ("unchanged"), None, or raises an exception ("raise").

\* the document and selection of a request, as the transformations see it
Requests ==
    [extract_valid : BOOLEAN,        \* BaseCstLspCodeAction.is_valid
     added_new_function : BOOLEAN,   \* FunctionExtractor splices a new function
     import_valid : BOOLEAN,         \* ImportSymbol.is_valid
     import_result : {"changed", "unchanged", "raise"},
     import_all_valid : BOOLEAN,     \* ImportAll.is_valid
     import_all_result : {"changed", "unchanged", "raise"}]

is_valid(transformation, request) ==
    CASE transformation = ExtractMethod -> request.extract_valid
      [] transformation = ImportSymbol -> request.import_valid
      [] transformation = ImportAll -> request.import_all_valid

\* the body of transformation.refactor
refactor_body(transformation, request) ==
    CASE transformation = ExtractMethod ->
           IF request.added_new_function THEN "changed" ELSE "None"
      [] transformation = ImportSymbol -> request.import_result
      [] transformation = ImportAll -> request.import_all_result

\* transformation.refactor(*args): a call that does not bind every
\* parameter raises TypeError before the body runs
refactor(transformation, args, request) ==
    IF Len(args) # Len(transformation.refactor) THEN "raise"
    ELSE refactor_body(transformation, request)

ServerInit ==
    /\ tree = <<>>
    /\ config = ExtractMethodConfig(1, 1)
    /\ todo = <<>>
    /\ state = ParserState
    /\ collector = VariableCollector
    /\ result = <<>>
    /\ split = <<>>
    /\ output = <<>>
    /\ ranges = <<>>
    /\ walk = <<>>
    /\ texts = <<>>
    /\ \E request \in Requests : \E symbol_finder \in BOOLEAN :
          server = [transformations |-> <<>>, request |-> request,
                    symbol_finder |-> symbol_finder, pc |-> "start", next |-> 0,
                    code_actions |-> <<>>, returned |-> <<>>]

ServerStep ==
    UNCHANGED <<tree, config, todo, state, collector, result, split, output,
                ranges, walk, texts>>

initialize ==
    /\ server # <<>>
    /\ server.pc = "start"
    /\ server' = [server EXCEPT
                     !.transformations =
                         <<ExtractMethod>>
                         \o (IF server.symbol_finder
                             THEN <<ImportSymbol, ImportAll>> ELSE <<>>),
                     !.pc = "initialized"]
    /\ ServerStep

\* lines 93-101: the document is parsed, the list of actions is empty
code_action_handler ==
    /\ server # <<>>
    /\ server.pc = "initialized"
    /\ server' = [server EXCEPT !.pc = "loop", !.next = 1, !.code_actions = <<>>]
    /\ ServerStep

\* lines 102-119: one turn of the loop over the transformations
code_action_handler_transformation ==
    /\ server # <<>>
    /\ server.pc = "loop"
    /\ server.next <= Len(server.transformations)
    /\ LET transformation == server.transformations[server.next]
           outcome == refactor(transformation, <<"module", "code_range">>,
                               server.request)
           skipped == \/ ~is_valid(transformation, server.request)
                      \/ outcome \in {"raise", "None", "unchanged"}
       IN  server' = [server EXCEPT
                         !.next = @ + 1,
                         !.code_actions =
                             IF skipped THEN @ ELSE Append(@, transformation.name)]
    /\ ServerStep

\* line 121: the list, or None when it is empty
code_action_handler_return ==
    /\ server # <<>>
    /\ server.pc = "loop"
    /\ server.next > Len(server.transformations)
    /\ server' = [server EXCEPT !.pc = "returned", !.returned = server.code_actions]
    /\ ServerStep

ServerNext ==
    \/ initialize
    \/ code_action_handler
    \/ code_action_handler_transformation
    \/ code_action_handler_return

ServerSpec == ServerInit /\ [][ServerNext]_vars

\* the handler has returned
HandlerReturned == server # <<>> /\ server.pc = "returned"

\* the titles of the code actions returned
Titles == {server.returned[k] : k \in DOMAIN server.returned}

\* what the refactor of a transformation computes when it is called with
\* the arguments the handler passes
Contributes(transformation) ==
    /\ is_valid(transformation, server.request)
    /\ refactor(transformation, <<"module", "code_range">>, server.request) = "changed"

\* C29: when the handler has returned for a request on which
\* ExtractMethod.is_valid holds and the extractor splices a new function,
\* "Extract Method" is among the actions returned; a transformation whose
\* refactor raises, returns None or returns the unchanged source has no
\* action in the list, and every transformation of the server has been tried.
C29_ServerIntegration ==
    HandlerReturned =>
        /\ (server.request.extract_valid /\ server.request.added_new_function)
              => "Extract Method" \in Titles
        /\ \A k \in DOMAIN server.transformations :
              ~Contributes(server.transformations[k])
                  => server.transformations[k].name \notin Titles
        /\ server.next = Len(server.transformations) + 1

\* the handler has returned for a valid selection the extractor rewrites,
\* after a transformation that raised and one that contributed
C29_Witness ==
    /\ HandlerReturned
    /\ server.request.extract_valid
    /\ server.request.added_new_function
    /\ server.request.import_valid /\ server.request.import_result = "raise"
    /\ "Import All Missing" \in Titles

(***************************************************************************)
(* string_diff_to_text_edits (server.py): the line diff of two texts as    *)
(* LSP text edits.  A text is a sequence of characters, a line a sequence  *)
(* of characters without the newline; lines and characters of a position   *)
(* count from 0, as in LSP and in difflib's opcodes.                       *)
(***************************************************************************)
\* the texts are of at most MaxTextLen characters
MaxTextLen == 3

Chars == {"a", "b", "\n"}

Texts == UNION {[1..n -> Chars] : n \in 0..MaxTextLen}

\* str.splitlines: the lines without their newlines; a newline at the end
\* of the text does not open another line
RECURSIVE splitlines_from(_, _, _)
splitlines_from(text, k, line) ==
    IF k > Len(text) THEN (IF line = <<>> THEN <<>> ELSE <<line>>)
    ELSE IF text[k] = "\n" THEN <<line>> \o splitlines_from(text, k + 1, <<>>)
    ELSE splitlines_from(text, k + 1, Append(line, text[k]))

splitlines(text) == splitlines_from(text, 1, <<>>)

\* "\n".join(lines)
RECURSIVE join(_)
join(lines) ==
    IF lines = <<>> THEN <<>>
    ELSE IF Len(lines) = 1 THEN lines[1]
    ELSE lines[1] \o <<"\n">> \o join(Tail(lines))

\* lines[j1:j2]
Slice(lines, j1, j2) == SubSeq(lines, j1 + 1, j2)

Largest(S) == CHOOSE x \in S : \A y \in S : y <= x

Smallest(S) == CHOOSE x \in S : \A y \in S : x <= y

\* the length of the longest common run of a[i:] and b[j:] inside the windows
RECURSIVE MatchLength(_, _, _, _, _, _)
MatchLength(a, b, i, j, ahi, bhi) ==
    IF i < ahi /\ j < bhi /\ a[i + 1] = b[j + 1]
    THEN 1 + MatchLength(a, b, i + 1, j + 1, ahi, bhi)
    ELSE 0

\* SequenceMatcher.find_longest_match: the longest matching block of
\* a[alo:ahi] and b[blo:bhi]; of the longest the one that starts earliest
\* in a, and of those the one that starts earliest in b
find_longest_match(a, b, alo, ahi, blo, bhi) ==
    LET size(i, j) == MatchLength(a, b, i, j, ahi, bhi)
        sizes == {size(i, j) : i \in alo..(ahi - 1), j \in blo..(bhi - 1)} \cup {0}
        best == Largest(sizes)
        besti == Smallest({i \in alo..(ahi - 1) :
                         \E j \in blo..(bhi - 1) : size(i, j) = best})
        bestj == Smallest({j \in blo..(bhi - 1) : size(besti, j) = best})
    IN  IF best = 0 THEN [i |-> alo, j |-> blo, size |-> 0]
        ELSE [i |-> besti, j |-> bestj, size |-> best]

\* SequenceMatcher.get_matching_blocks, without the closing dummy block:
\* the longest block, then the same to its left and to its right
RECURSIVE matching_blocks(_, _, _, _, _, _)
matching_blocks(a, b, alo, ahi, blo, bhi) ==
    LET x == find_longest_match(a, b, alo, ahi, blo, bhi)
    IN  IF x.size = 0 THEN <<>>
        ELSE (IF alo < x.i /\ blo < x.j
              THEN matching_blocks(a, b, alo, x.i, blo, x.j) ELSE <<>>)
             \o <<x>>
             \o (IF x.i + x.size < ahi /\ x.j + x.size < bhi
                 THEN matching_blocks(a, b, x.i + x.size, ahi, x.j + x.size, bhi)
                 ELSE <<>>)

get_matching_blocks(a, b) ==
    Append(matching_blocks(a, b, 0, Len(a), 0, Len(b)),
           [i |-> Len(a), j |-> Len(b), size |-> 0])

\* SequenceMatcher.get_opcodes: what turns a[i:ai] into b[j:bj] between two
\* matching blocks, and "equal" for each block
RECURSIVE opcodes_from(_, _, _)
opcodes_from(blocks, i, j) ==
    IF blocks = <<>> THEN <<>>
    ELSE LET x == Head(blocks)
             tag == IF i < x.i /\ j < x.j THEN "replace"
                    ELSE IF i < x.i THEN "delete"
                    ELSE IF j < x.j THEN "insert"
                    ELSE ""
         IN  (IF tag # ""
              THEN <<[tag |-> tag, i1 |-> i, i2 |-> x.i, j1 |-> j, j2 |-> x.j]>>
              ELSE <<>>)
             \o (IF x.size > 0
                 THEN <<[tag |-> "equal", i1 |-> x.i, i2 |-> x.i + x.size,
                         j1 |-> x.j, j2 |-> x.j + x.size]>>
                 ELSE <<>>)
             \o opcodes_from(Tail(blocks), x.i + x.size, x.j + x.size)

get_opcodes(a, b) == opcodes_from(get_matching_blocks(a, b), 0, 0)

Position(line, character) == [line |-> line, character |-> character]

TextEdit(start, end, new_text) == [start |-> start, end |-> end, new_text |-> new_text]

\* text_edits[key] = edit: a new key goes last, a known key keeps its place
SetEdit(text_edits, key, edit) ==
    IF \E k \in DOMAIN text_edits : text_edits[k].key = key
    THEN [k \in DOMAIN text_edits |->
             IF text_edits[k].key = key THEN [key |-> key, edit |-> edit]
             ELSE text_edits[k]]
    ELSE Append(text_edits, [key |-> key, edit |-> edit])

\* one turn of the loop over the opcodes
EditFor(text_edits, op, original_lines, modified_lines) ==
    LET new_lines == join(Slice(modified_lines, op.j1, op.j2))
    IN  CASE op.tag = "replace" ->
               SetEdit(text_edits, op.i1,
                       TextEdit(Position(op.i1, 0),
                                Position(op.i2 - 1, Len(original_lines[op.i2])),
                                new_lines))
          [] op.tag = "insert" ->
               IF \E k \in DOMAIN text_edits : text_edits[k].key = op.i1
               THEN [k \in DOMAIN text_edits |->
                        IF text_edits[k].key = op.i1
                        THEN [text_edits[k] EXCEPT
                                 !.edit.new_text = @ \o new_lines \o <<"\n">>]
                        ELSE text_edits[k]]
               ELSE SetEdit(text_edits, op.i1,
                            TextEdit(Position(op.i1, 0), Position(op.i1, 0),
                                     new_lines \o <<"\n">>))
          [] op.tag = "delete" ->
               SetEdit(text_edits, op.i1,
                       TextEdit(Position(op.i1, 0),
                                Position(op.i2, Len(original_lines[op.i2])),
                                <<>>))
          [] OTHER -> text_edits

RECURSIVE EditsFor(_, _, _, _)
EditsFor(text_edits, ops, original_lines, modified_lines) ==
    IF ops = <<>> THEN text_edits
    ELSE EditsFor(EditFor(text_edits, Head(ops), original_lines, modified_lines),
                  Tail(ops), original_lines, modified_lines)

string_diff_to_text_edits(original, modified) ==
    LET original_lines == splitlines(original)
        modified_lines == splitlines(modified)
        text_edits == EditsFor(<<>>, get_opcodes(original_lines, modified_lines),
                               original_lines, modified_lines)
    IN  [k \in DOMAIN text_edits |-> text_edits[k].edit]

\* The client applies the edits of a WorkspaceEdit to the document: every
\* range is a range of the document as it was.  A line of the document ends
\* at its newline, and a newline at the end of the text opens a last, empty
\* line; a position past the end of a line is the end of that line, a
\* position past the last line is the end of the text.
LineStarts(text) == <<0>> \o SelectSeq([k \in 1..Len(text) |->
                                          IF text[k] = "\n" THEN k ELSE 0 - 1],
                                       LAMBDA k : k >= 0)

Offset(text, position) ==
    LET starts == LineStarts(text)
    IN  IF position.line >= Len(starts) THEN Len(text)
        ELSE LET start == starts[position.line + 1]
                 end == IF position.line + 1 < Len(starts)
                        THEN starts[position.line + 2] - 1 ELSE Len(text)
             IN  Min(start + position.character, end)

RECURSIVE ApplySpans(_, _)
ApplySpans(text, spans) ==
    IF spans = {} THEN text
    ELSE LET last == CHOOSE x \in spans :
                         \A y \in spans : y.start < x.start
                                          \/ (y.start = x.start /\ y.k <= x.k)
         IN  ApplySpans(SubSeq(text, 1, last.start) \o last.new_text
                            \o SubSeq(text, last.end + 1, Len(text)),
                        spans \ {last})

apply_text_edits(text, edits) ==
    ApplySpans(text, {[k |-> k, start |-> Offset(text, edits[k].start),
                       end |-> Offset(text, edits[k].end),
                       new_text |-> edits[k].new_text] : k \in DOMAIN edits})

TextEditInit ==
    /\ tree = <<>>
    /\ config = ExtractMethodConfig(1, 1)
    /\ todo = <<>>
    /\ state = ParserState
    /\ collector = VariableCollector
    /\ result = <<>>
    /\ split = <<>>
    /\ output = <<>>
    /\ ranges = <<>>
    /\ walk = <<>>
    /\ server = <<>>
    /\ \E original \in Texts : \E modified \in Texts :
          texts = [original |-> original, modified |-> modified, pc |-> "source",
                   edits |-> <<>>, applied |-> <<>>]

\* code_action_handler, line 109
call_string_diff_to_text_edits ==
    /\ texts # <<>>
    /\ texts.pc = "source"
    /\ texts' = [texts EXCEPT
                    !.edits = string_diff_to_text_edits(texts.original, texts.modified),
                    !.pc = "edits"]
    /\ UNCHANGED <<ExtractorVars, ranges, walk, server>>

\* the client applies the WorkspaceEdit of the code action
client_applies_edits ==
    /\ texts # <<>>
    /\ texts.pc = "edits"
    /\ texts' = [texts EXCEPT
                    !.applied = apply_text_edits(texts.original, texts.edits),
                    !.pc = "applied"]
    /\ UNCHANGED <<ExtractorVars, ranges, walk, server>>

TextEditNext ==
    \/ call_string_diff_to_text_edits
    \/ client_applies_edits

TextEditSpec == TextEditInit /\ [][TextEditNext]_vars

\* p is at or before q
PositionLeq(p, q) ==
    p.line < q.line \/ (p.line = q.line /\ p.character <= q.character)

\* two ranges share more than an end point
Overlapping(e, f) == ~(PositionLeq(e.end, f.start) \/ PositionLeq(f.end, e.start))

\* C30: when the edits returned for (original, modified) have been applied
\* to original, the text obtained has the lines of modified, and no two of
\* the edits have overlapping ranges.
C30_RoundTrip ==
    (texts # <<>> /\ texts.pc = "applied") =>
        /\ splitlines(texts.applied) = splitlines(texts.modified)
        /\ \A k, l \in DOMAIN texts.edits :
              k # l => ~Overlapping(texts.edits[k], texts.edits[l])

\* edits for a replaced and an inserted run have been applied and gave the
\* lines of modified
C30_Witness ==
    /\ texts # <<>>
    /\ texts.pc = "applied"
    /\ Len(texts.edits) = 2
    /\ splitlines(texts.applied) = splitlines(texts.modified)
    /\ texts.applied # texts.original

====
